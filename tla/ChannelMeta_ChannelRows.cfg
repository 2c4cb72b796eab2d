SPECIFICATION Spec
CONSTANTS
  MaxEvents = 3
INVARIANTS
  PageCallsBounded
PROPERTIES
  NoHammering
  MetadataIsRead
