---------------------------- MODULE MCApiGateway ----------------------------
(* Two exchanges of any two kinds, each with a plan of two steps.          *)
EXTENDS ApiGateway

CONSTANTS e1, e2

MCExchanges == {e1, e2}
MCGoals == {{"pdf"}}
MCToolNames == {"pdf_extract", "pdf_analyze"}
=============================================================================
