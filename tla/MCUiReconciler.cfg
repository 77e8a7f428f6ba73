CONSTANTS
  LayerOrder <- MCLayerOrder
  OverlayLayer = "overlay"
  ModalLayer = "modal"
  Documents <- MCDocuments
  v1 = v1
  v2 = v2
  Values = {v1, v2}
  Blank = Blank
  NoDocument = NoDocument
  HostCount = 2
  MutationCount = 2
  WidgetCount = 6
  PopoverLayers = {"location", "modal"}
  MaxPopovers = 2
  FaultKinds = {"prepare", "commit", "invalidate", "restore", "attach", "readd"}
  MaxFaults = 3
SPECIFICATION Spec
INVARIANTS  OnlyTopModalTakesInput
 
