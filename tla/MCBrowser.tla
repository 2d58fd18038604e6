----------------------------- MODULE MCBrowser -----------------------------
(* A card with two levels of directories, pages of three rows and a root of three pages. *)
EXTENDS Browser

MCFile(name, type) == [name |-> name, type |-> type]
RootFiles == <<MCFile("GAMES", "dir"), MCFile("A.TAP", "TAP"), MCFile("A.D64", "D64"),
               MCFile("READ.ME", ".ME"), MCFile("DEMOS", "dir")>>
GameFiles == <<MCFile("B.TAP", "TAP"), MCFile("OLD", "dir")>>
OldFiles == <<MCFile("C.TAP", "TAP"), MCFile("C.D64", "D64"),
              MCFile("D.TAP", "TAP"), MCFile("E.TXT", "TXT")>>

MCNames == {f.name : f \in Range(RootFiles \o GameFiles \o OldFiles)}
MCTypes == {"dir", "TAP", "D64", ".ME", "TXT"}

MCCard ==
    LET paths == {<<>>, <<"GAMES">>, <<"DEMOS">>, <<"GAMES", "OLD">>}
    IN [p \in paths |->
           CASE p = <<>> -> RootFiles
             [] p = <<"GAMES">> -> GameFiles
             [] p = <<"DEMOS">> -> <<>>
             [] p = <<"GAMES", "OLD">> -> OldFiles]
=============================================================================
