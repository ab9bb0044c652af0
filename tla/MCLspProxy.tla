---------------------------- MODULE MCLspProxy ----------------------------
(***************************************************************************)
(* Two servers: gopls serves go, lint serves go for one capability only    *)
(* and text for all.                                                       *)
(***************************************************************************)
EXTENDS LspProxy, TLC

CONSTANTS gopls, lint, go, text, main, notes

MCBindings == (go :> <<gopls, lint>>) @@ (text :> <<lint>>)
MCCapabilities == [l \in {go, text} |-> (gopls :> {}) @@ (lint :> IF l = go THEN {"format"} ELSE {})]
MCLangOf == (main :> go) @@ (notes :> text)
=============================================================================
