--------------------------- MODULE SessionNames ---------------------------
(***************************************************************************)
(* The naming contract between agent sessions and jj workspaces.           *)
(*                                                                         *)
(* A session that owns a workspace is called org:repo:bookmark (helpers.go)*)
(* and nothing else decides which bookmark it works on.  An organisation   *)
(* and its repository always travel together, so one element of Repos      *)
(* stands for the pair.  Names that do not split into three parts are      *)
(* Strays: sessions the extension does not own a workspace for.            *)
(***************************************************************************)
CONSTANTS
    Repos,      \* org/repo pairs
    Marks,      \* bookmark names
    Main,       \* the bookmark "main"
    Strays,     \* session names without the org:repo:bookmark shape
    None        \* Go's nil: no row, no parent, no event

Workspaces == [repo : Repos, bm : Marks]

\* namingSession and parseSession: the two directions of the contract.
NamingSession(w) == <<w.repo, w.bm>>
ParseSession(s) == [repo |-> s[1], bm |-> s[2]]

DerivedNames == {NamingSession(w) : w \in Workspaces}
Sids == DerivedNames \union Strays

MainOf(repo) == [repo |-> repo, bm |-> Main]

ASSUME NamesAssumption ==
    /\ Main \in Marks
    /\ Strays \intersect DerivedNames = {}
    /\ None \notin Workspaces /\ None \notin Sids /\ None \notin Marks
===========================================================================
