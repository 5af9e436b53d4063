---------------------------- MODULE MCTemplates ----------------------------
(***************************************************************************)
(* Two logical clusters, one of them also addressed by its path, behind a  *)
(* kcp server that may itself live under a path; a template that stays in  *)
(* HTML text, one with a script in it and a random value, and one that     *)
(* ends in a script.                                                       *)
(***************************************************************************)
EXTENDS Templates

CONSTANTS config, wst, wstPath

MCResolvedTo == [p \in Path |-> wst]

\* What `server:' of a kubeconfig may say: the server, with and without a
\* slash, behind a path, and a workspace of it, with and without a slash.
Servers == {<<>>, <<Blank>>, <<"kcp">>, <<"clusters", config>>, <<"kcp", "clusters", wstPath>>,
            <<"clusters", config, Blank>>}

Piece(kind) == [kind |-> kind]
Action(of, quoted) == [kind |-> "value", of |-> of, quoted |-> quoted]

MCTemplate == { <<Piece("less"), Piece("comment"), Action("path", TRUE)>>,
                <<Piece("opens"), Action("name", TRUE), Piece("closes"), Piece("random")>>,
                <<Piece("opens"), Action("path", FALSE)>> }
=============================================================================
