--------------------------- MODULE MCNativeBridge ---------------------------
(* Three threads, two bridges with a library each.                         *)
EXTENDS NativeBridge

CONSTANTS t1, t2, t3, ocr, layout

MCThreads == {t1, t2, t3}
MCBridges == {ocr, layout}
MCLibraryOf == [b \in MCBridges |-> IF b = ocr THEN "office_ocr" ELSE "office_layout"]
MCLibraries == {"office_ocr", "office_layout"}
=============================================================================
