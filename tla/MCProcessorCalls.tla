--------------------------- MODULE MCProcessorCalls ---------------------------
(* Ann is on the list in another spelling, or nobody is, or the list is not  *)
(* used.  gcloud prints a token, fails, or prints a text with an empty line   *)
(* and fails; mediainfo prints two lines and an empty one, or a single line   *)
(* for a file without sound, or fails.                                        *)
EXTENDS ProcessorCalls

CONSTANTS Ann, ann

MCToLower == [n \in Names |-> IF n = Ann THEN ann ELSE n]

MCContents ==
  { [use_enabled_users |-> TRUE, users |-> {Ann}],
    [use_enabled_users |-> TRUE, users |-> {}],
    [use_enabled_users |-> FALSE, users |-> {}] }

MCOneTrack == <<"{", "}">>
MCNoTrack == <<"{}">>

MCRuns ==
  [gcloud |-> {[lines |-> <<"token">>, code |-> 0], [lines |-> <<>>, code |-> 1],
               [lines |-> <<"text", "", "text">>, code |-> 1]},
   mediainfo |-> {[lines |-> Append(MCOneTrack, ""), code |-> 0], [lines |-> MCNoTrack, code |-> 0],
                  [lines |-> <<>>, code |-> 1]}]

\* Messages with edits, requests, or one of each.
MCBounds == ((0..3) \X {0} \X (0..1)) \cup ({0} \X (0..2) \X {0}) \cup ((0..1) \X (0..1) \X {0})
================================================================================
