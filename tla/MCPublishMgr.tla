----------------------------- MODULE MCPublishMgr -----------------------------
(* Two ports, two statements, two requests in service. *)
EXTENDS PublishMgr

CONSTANTS s1, s2, c1, c2

\* Neither statement's text is part of the other's.
Apart == {<<s1, s1>>, <<s2, s2>>}
===============================================================================
