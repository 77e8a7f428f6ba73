--------------------------- MODULE MCUiReconciler ---------------------------
(* Five documents over three layers: from one to the next a screen changes *)
(* its value or its id, appears or disappears, modals are reordered, and    *)
(* one document names a slot twice and must be refused.                     *)
EXTENDS UiReconciler

CONSTANTS v1, v2

MCLayerOrder == <<"location", "overlay", "modal">>

At(layer, key, screen, value) ==
    [layer |-> layer, key |-> key, screen |-> screen, value |-> value]

Route(screen, value) == At("location", "main", screen, value)
OverlayAt(value) == At("overlay", "hud", "Hud", value)
ModalAt(key, value) == At("modal", key, "Dialog", value)

MCDocuments ==
    { <<Route("Map", v1)>>,
      <<Route("Room", v1), ModalAt("a", v1), ModalAt("b", v2)>>,
      <<Route("Room", v2), ModalAt("b", v1), ModalAt("a", v1)>>,
      <<OverlayAt(v1), ModalAt("a", v2)>>,
      <<Route("Room", v2), ModalAt("a", v1), ModalAt("a", v2)>> }
=============================================================================
