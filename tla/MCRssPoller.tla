----------------------------- MODULE MCRssPoller -----------------------------
(***************************************************************************)
(* Instances of RssPoller for TLC.                                         *)
(***************************************************************************)
EXTENDS RssPoller

CONSTANTS u1, u2, chat1

\* Only one of the feeds ever lists anything; the other may fail.
OnePublisher == [u \in Urls |-> IF u = u1 THEN Guids ELSE {}]
=============================================================================
