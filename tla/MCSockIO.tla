------------------------------ MODULE MCSockIO ------------------------------
(***************************************************************************)
(* Instances of SockIO for TLC.                                            *)
(***************************************************************************)
EXTENDS SockIO

\* Send is documented as "@return true on success, false otherwise": a message
\* it reports as sent has been given to the connection.
WriteIsDone == result = "success" => err = "done"

=============================================================================
