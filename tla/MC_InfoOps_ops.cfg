CONSTANTS
    MaxKeyLen = 5
    FewBlocks = 0
    None = None
    Keys <- MCKeys
    Values <- MCValues
    GroupDefs <- MCGroupDefs

SPECIFICATION Spec

INVARIANT PrefixIsGroupName
