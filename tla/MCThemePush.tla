----------------------------- MODULE MCThemePush -----------------------------
(* ThemePush for TLC: the two layouts exceed a batch together, the template *)
(* uses one of them, and the style sheet alone exceeds a batch.             *)
EXTENDS ThemePush

MCKind == [theme |-> "layout", gift |-> "layout", template |-> "template", style |-> "asset"]
MCRequires == [k \in Keys |-> IF k = "template" THEN {"gift"} ELSE {}]
MCSize == [theme |-> 2, gift |-> 2, template |-> 1, style |-> 4]

==============================================================================
