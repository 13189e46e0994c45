---------------------------- MODULE MCConnection ----------------------------
(* Small instances of Connection for TLC.                                  *)
EXTENDS Connection

Page == [upload |-> FALSE, coding |-> "none", multipart |-> FALSE, payload |-> 0,
         keep |-> TRUE, valid |-> TRUE, joined |-> {}]

LastPage == [Page EXCEPT !.keep = FALSE]

Upload(n) == [Page EXCEPT !.upload = TRUE, !.coding = "counted", !.payload = n]

\* A chunked upload is taken only if all of it comes with the end of the
\* headers, and the connection cannot be used afterwards.
Chunked(n) == [Upload(n) EXCEPT !.coding = "chunked", !.keep = FALSE,
                 !.joined = 5 .. 7 + 4 * n]

\* A multipart upload is taken only if no read ends between its last boundary
\* and the dashes after it, and the connection cannot be used afterwards.
Parts(n) == [Upload(n) EXCEPT !.multipart = TRUE, !.keep = FALSE, !.joined = {14 + n}]

MCAsks == <<Page, LastPage, Upload(0), Upload(2), Chunked(2), Parts(2)>>
=============================================================================
