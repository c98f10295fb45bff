CONSTANTS
    MaxNameLen = 3
SPECIFICATION Spec
INVARIANT NamespaceOwnedOnce
