SPECIFICATION Spec
CONSTANTS
    NodeNames <- MCNodeNames
    PropNames <- MCPropNames
    Values <- MCValues
    Ranges <- MCRanges
    RangeProp <- MCRangeProp
    Reservations <- MCReservations
    Starts <- MCStarts
    Overlays <- MCOverlays
    RefProp <- MCRefProp
    LabelProp <- MCLabelProp
    Label <- MCLabel
    BufSizes = {112}
    Deltas <- MCDeltas
    MaxTokens = 4
    MaxReserved = 1
    MaxLen = 8
INVARIANTS LayoutInv ReadsRight EditsExact OverlayMerged ReferencesFollow
 
