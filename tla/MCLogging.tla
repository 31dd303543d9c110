----------------------------- MODULE MCLogging -----------------------------
(* The configurations of the run: a rotated file and a console; a file     *)
(* that is not rotated by lines and a socket; a file and a filter that     *)
(* ends the start; and a tag that is used twice.                           *)
EXTENDS Logging

INFO == 4
ERROR == 6

Filter(tag, type, level) ==
  [tag |-> tag, type |-> type, level |-> level, enabled |-> TRUE, wellFormed |-> TRUE,
   rotate |-> FALSE, maxlines |-> 0, timed |-> FALSE]

Rotated == [Filter("file", "file", INFO) EXCEPT !.rotate = TRUE, !.maxlines = 1]
Appended == [Filter("file", "file", INFO) EXCEPT !.timed = TRUE]
Socket == Filter("net", "socket", ERROR)
Console == Filter("net", "console", ERROR)

MCConfigurations ==
  { <<Rotated, Console>>,
    <<Socket, [Console EXCEPT !.tag = "file", !.enabled = FALSE], Appended>>,
    <<[Rotated EXCEPT !.type = "xml", !.timed = TRUE, !.maxlines = 2], [Socket EXCEPT !.wellFormed = FALSE]>>,
    <<[Rotated EXCEPT !.tag = "net", !.type = "xml"], Socket>> }

MCLevel == {INFO, ERROR}
=============================================================================
