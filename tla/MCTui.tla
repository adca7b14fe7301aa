-------------------------------- MODULE MCTui --------------------------------
(* A small instance of Tui: two branches on a screen of one row, two         *)
(* profiles, a workspace; two sessions; two repositories that have the same  *)
(* conversation, and one of them another.                                    *)
EXTENDS Tui

MCBranches == <<"main", "dev">>
MCProfiles == <<"high", "default">>
MCWorkspaces == <<"libs">>
MCRepos == <<"app", "lib">>
MCConversations ==
  {[repo |-> "app", id |-> "c1"], [repo |-> "lib", id |-> "c1"], [repo |-> "lib", id |-> "c2"]}
MCFirstRecords == <<[name |-> "x", branch |-> TRUE]>>
===============================================================================
