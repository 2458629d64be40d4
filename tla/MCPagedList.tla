---------------------------- MODULE MCPagedList ----------------------------
(* Five items in pages of two, so that the readers cross two page            *)
(* boundaries, and are resumed at one; one poller and one scan.              *)
EXTENDS PagedList

CONSTANTS poller, scan

TheScans   == {scan}
ThePollers == {poller}
=============================================================================
