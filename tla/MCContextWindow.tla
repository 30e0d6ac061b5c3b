--------------------------- MODULE MCContextWindow ---------------------------
(* Texts of one and three tokens in a window for ten, and three keys for the *)
(* two pins there may be.                                                    *)
EXTENDS ContextWindow

CONSTANTS dates, brand, currency

MCKeys         == {dates, brand, currency}
MCTextSizes    == {1, 3}
MCPinSizes     == {1, 2}
MCSummarySizes == {0, 2}
==============================================================================
