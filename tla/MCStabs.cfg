SPECIFICATION Spec
CONSTANTS
  Bodies <- MCBodies
  Sizes = {3, 12}
  Gaps = {0, 2, 5}
PROPERTIES
  InfoIsFound
