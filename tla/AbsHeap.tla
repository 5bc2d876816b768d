------------------------------ MODULE AbsHeap ------------------------------
(***************************************************************************)
(* What the two heaps promise their callers (kmalloc and kfree, malloc and *)
(* free, whose prototypes are in headers that the repository lacks):       *)
(* an allocation that returns owns the pages it asked for until the        *)
(* address it returned is freed, and nothing else changes who owns a page. *)
(*                                                                         *)
(* The promise says nothing of where a block is placed, nor of when an     *)
(* allocation may be refused.                                              *)
(***************************************************************************)
EXTENDS Integers

CONSTANT N
Pages == 0 .. N-1

Null    == -1      \* the address 0
NoCall  == -2      \* nothing was allocated yet
Panic   == -3      \* the call ended in the kernel prompt and never returned

VARIABLES
  owner,   \* the first page of the block a page belongs to, or Null
  ret      \* what the last allocation returned

vars == <<owner, ret>>

Window(s, n) == s .. s+n-1
Unowned(s, n) == Window(s, n) \subseteq {p \in Pages : owner[p] = Null}
Take(s, n) == owner' = [p \in Pages |-> IF p \in Window(s, n) THEN s ELSE owner[p]]

Init ==
  /\ owner = [p \in Pages |-> Null]
  /\ ret = NoCall

Grant(n) ==
  \E s \in Pages : /\ Unowned(s, n)
                   /\ Take(s, n)
                   /\ ret' = s

Refuse ==
  /\ ret' = Null
  /\ UNCHANGED owner

(* The machine ran out of frames part of the way: the pages mapped so far  *)
(* stay a block of their own.                                              *)
BreakOff(n) ==
  \E s \in Pages : \E k \in 0 .. n-1 : /\ Unowned(s, k)
                                       /\ Take(s, k)
                                       /\ ret' = Panic

Release(s) ==
  /\ owner' = [p \in Pages |-> IF owner[p] = s THEN Null ELSE owner[p]]
  /\ UNCHANGED ret

Next ==
  \/ \E n \in 0 .. N : Grant(n) \/ BreakOff(n)
  \/ Refuse
  \/ \E s \in Pages : Release(s)

Spec == Init /\ [][Next]_vars
=============================================================================
