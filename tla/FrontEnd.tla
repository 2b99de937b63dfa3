------------------------------- MODULE FrontEnd -------------------------------
(***************************************************************************)
(* A browser tab and the server: the session, the chat and the page of the *)
(* knowledge bases.  The pages share the session, which a failed call of   *)
(* either may end, and follow the page that is mounted; loading the tab    *)
(* again loses everything but what is in sessionStorage.                   *)
(***************************************************************************)
EXTENDS ChatStore, KnowledgePage

vars == <<sessionVars, chatVars, knowledgeVars>>

TypeOK == SessionTypeOK /\ ChatTypeOK /\ KnowledgeTypeOK

Init == SessionInit /\ ChatInit /\ KnowledgeInit

Next ==
  \/ SessionStep /\ ChatFollows /\ KnowledgeFollows
  \/ Reload /\ ChatLost /\ KnowledgeLost
  \/ ChatStep /\ KnowledgeFollows
  \/ KnowledgeStep /\ ChatFollows

Spec == Init /\ [][Next]_vars
=============================================================================
