---------------------------- MODULE TransferActions ---------------------------
(* The built-in actions that move data over the network or to a file:       *)
(* download_file, http_request and write_text. The action's thread blocks in*)
(* the socket, so a second thread watches the deadline and the run's        *)
(* cancellation and shuts the socket down under it; a read from a socket shut *)
(* down looks like the end of the answer. Other programs use the same file. *)
EXTENDS Naturals

CONSTANTS MaxPieces,     \* bound: pieces in a server's answer
          PieceLimit,    \* max_mb, or the 1 MiB kept of an answer
          MaxHops        \* redirects followed (five in the code)

ASSUME TransferConstants == MaxPieces \in Nat /\ PieceLimit \in Nat /\ MaxHops \in Nat

VARIABLES errand,        \* what the action is asked to do, and the server's answer
          phase,         \* where its thread is
          hops,          \* redirects followed
          link,          \* the active socket: "none", "open", "shut"
          got,           \* pieces received
          scratch,       \* the temporary file exists
          target,        \* the file: "none", "before", "theirs", "part", "whole"
          appeared,      \* history: another program made the file meanwhile
          watching,      \* the watcher thread is alive
          overdue,       \* the deadline has passed
          abandoned,     \* the run was cancelled
          ending         \* how the action ended

transferVars == <<errand, phase, hops, link, got, scratch, target, appeared,
                  watching, overdue, abandoned, ending>>

Undeclared == MaxPieces + 1       \* no Content-Length
Errands ==
  [kind : {"download", "request"}, overwrite : BOOLEAN, size : 0 .. MaxPieces,
   declared : 0 .. Undeclared]
    \cup [kind : {"write"}, overwrite : BOOLEAN, size : {1}, declared : {Undeclared}]

NothingMoved ==
  /\ phase = "asked" /\ hops = 0 /\ link = "none" /\ got = 0 /\ scratch = FALSE
  /\ appeared = FALSE /\ watching = FALSE /\ overdue = FALSE /\ abandoned = FALSE
  /\ ending = "none"

TransferInit ==
  /\ errand \in {e \in Errands :
       /\ e.kind = "request" => e.overwrite /\ e.declared = Undeclared
       /\ e.declared = Undeclared \/ e.declared >= e.size}
  /\ target \in {"none", "before"} /\ (errand.kind = "request" => target = "none")
  /\ NothingMoved

Moved(s) == phase' = s
Ends(how) == ending' = how /\ phase' = "leaving"

----------------------------------------------------------------------------
(* Time, the run's cancellation and other programs.                         *)
TimeIsUp ==
  /\ ~overdue /\ phase # "over" /\ errand.kind # "write" /\ overdue' = TRUE
  /\ UNCHANGED <<errand, phase, hops, link, got, scratch, target, appeared, watching,
                 abandoned, ending>>
CallOff ==
  /\ ~abandoned /\ phase # "over" /\ errand.kind # "write" /\ abandoned' = TRUE
  /\ UNCHANGED <<errand, phase, hops, link, got, scratch, target, appeared, watching,
                 overdue, ending>>
FileAppears ==
  /\ target = "none" /\ phase # "over" /\ errand.kind # "request"
  /\ target' = "theirs" /\ appeared' = TRUE
  /\ UNCHANGED <<errand, phase, hops, link, got, scratch, watching, overdue, abandoned, ending>>

(* watch_connection, interrupt_connection.                                  *)
Refusing == abandoned \/ overdue
Interrupt ==
  /\ watching /\ Refusing /\ link = "open" /\ link' = "shut"
  /\ UNCHANGED <<errand, phase, hops, got, scratch, target, appeared, watching, overdue,
                 abandoned, ending>>

----------------------------------------------------------------------------
(* What the thread reports when it finds out itself, in the order of the code.*)
Stopped == IF abandoned THEN "cancelled" ELSE "late"

(* Checks before anything is opened. http_request resolves the name first and *)
(* starts no watcher when that took too long.                               *)
BeginDownload ==
  /\ phase = "asked" /\ errand.kind = "download"
  /\ IF target # "none" /\ ~errand.overwrite
     THEN ending' = "exists" /\ phase' = "over" /\ UNCHANGED watching
     ELSE Moved("connecting") /\ watching' = TRUE /\ UNCHANGED ending
  /\ UNCHANGED <<errand, hops, link, got, scratch, target, appeared, overdue, abandoned>>
BeginRequest ==
  /\ phase = "asked" /\ errand.kind = "request"
  /\ IF Refusing
     THEN ending' = Stopped /\ phase' = "over" /\ UNCHANGED watching
     ELSE Moved("connecting") /\ watching' = TRUE /\ UNCHANGED ending
  /\ UNCHANGED <<errand, hops, link, got, scratch, target, appeared, overdue, abandoned>>

(* connect: the socket is there for the watcher as soon as it is open.      *)
Dial ==
  /\ phase = "connecting" /\ link = "none"
  /\ IF errand.kind = "download" /\ Refusing
     THEN Ends(Stopped) /\ UNCHANGED link
     ELSE link' = "open" /\ UNCHANGED <<phase, ending>>
  /\ UNCHANGED <<errand, hops, got, scratch, target, appeared, watching, overdue, abandoned>>

(* An OSError or a broken answer, with what has happened meanwhile.         *)
Blame(how) == IF abandoned THEN "cancelled" ELSE IF overdue THEN "late" ELSE how

(* The connection fails, or the server answers with an error.               *)
DialFails ==
  /\ phase = "connecting"
  /\ Ends("failed") \/ Ends(Blame("failed"))
  /\ link' = "none"
  /\ UNCHANGED <<errand, hops, got, scratch, target, appeared, watching, overdue, abandoned>>

(* The head of the answer arrives: a redirect, or the size and the body.    *)
FollowRedirect ==
  /\ phase = "connecting" /\ link # "none" /\ link' = "none"
  /\ IF errand.kind = "request" \/ hops = MaxHops
     THEN Ends("failed") /\ UNCHANGED hops
     ELSE hops' = hops + 1 /\ UNCHANGED <<phase, ending>>
  /\ UNCHANGED <<errand, got, scratch, target, appeared, watching, overdue, abandoned>>

ReadHead ==
  /\ phase = "connecting" /\ link # "none"
  /\ IF errand.kind = "download" /\ errand.declared # Undeclared /\ errand.declared > PieceLimit
     THEN Ends("too_large") /\ UNCHANGED scratch
     ELSE /\ Moved("receiving") /\ UNCHANGED ending
          /\ scratch' = (errand.kind = "download")
  /\ UNCHANGED <<errand, hops, link, got, target, appeared, watching, overdue, abandoned>>

(* One turn of the loop: the checks, then a read that may block. It returns a *)
(* piece (one may be buffered when the socket is shut down), the end of the *)
(* answer or, from a socket shut down, an end as well.                      *)
NextTurn ==
  /\ phase = "receiving"
  /\ IF Refusing THEN Ends(Stopped) /\ UNCHANGED got
     ELSE Moved("reading") /\ UNCHANGED <<got, ending>>
  /\ UNCHANGED <<errand, hops, link, scratch, target, appeared, watching, overdue, abandoned>>

ReadPiece ==
  /\ phase = "reading" /\ got < errand.size /\ got' = got + 1
  /\ IF got' <= PieceLimit THEN Moved("receiving") /\ UNCHANGED ending
     ELSE IF errand.kind = "download" THEN Ends("too_large")
     ELSE Moved("received") /\ UNCHANGED ending
  /\ UNCHANGED <<errand, hops, link, scratch, target, appeared, watching, overdue, abandoned>>

ReadNothing ==
  /\ phase = "reading" /\ (link = "shut" \/ got = errand.size)
  /\ Moved("received")
  /\ UNCHANGED <<errand, hops, link, got, scratch, target, appeared, watching, overdue,
                 abandoned, ending>>
ReadBreaks ==
  /\ phase = "reading"
  /\ Ends(Blame("failed")) \/ (~(errand.kind = "request" /\ abandoned) /\ Ends("failed"))
  /\ UNCHANGED <<errand, hops, link, got, scratch, target, appeared, watching, overdue, abandoned>>

----------------------------------------------------------------------------

(* The checks after the loop: whoever ended it early is found out here.     *)
AcceptAnswer ==
  /\ phase = "received" /\ errand.kind = "request"
  /\ Ends(IF Refusing THEN Stopped ELSE "ok")
  /\ UNCHANGED <<errand, hops, link, got, scratch, target, appeared, watching, overdue, abandoned>>
AcceptFile ==
  /\ phase = "received" /\ errand.kind = "download"
  /\ IF overdue THEN Ends(Stopped)
     ELSE IF errand.declared \notin {got, Undeclared} THEN Ends("failed")
     ELSE IF abandoned THEN Ends("cancelled")
     ELSE Moved("placing") /\ UNCHANGED ending
  /\ UNCHANGED <<errand, hops, link, got, scratch, target, appeared, watching, overdue, abandoned>>

(* replace, or a name that must be new; either may fail.                    *)
Place ==
  /\ phase = "placing"
  /\ \/ (errand.overwrite \/ target = "none") /\ Ends("ok") /\ target' = "whole"
     \/ Ends(Blame(IF errand.overwrite \/ target = "none" THEN "failed" ELSE "exists"))
          /\ UNCHANGED target
  /\ UNCHANGED <<errand, hops, link, got, scratch, appeared, watching, overdue, abandoned>>

(* finally: the watcher ends before the socket is closed.                   *)
StopWatcher ==
  /\ phase = "leaving" /\ watching /\ watching' = FALSE
  /\ UNCHANGED <<errand, phase, hops, link, got, scratch, target, appeared, overdue,
                 abandoned, ending>>
CleanAfter ==
  /\ phase = "leaving" /\ ~watching /\ Moved("over") /\ link' = "none" /\ scratch' = FALSE
  /\ UNCHANGED <<errand, hops, got, target, appeared, watching, overdue, abandoned, ending>>

----------------------------------------------------------------------------
(* write_text: an exclusive creation, or the file emptied and written anew. *)
OpenForWriting ==
  /\ phase = "asked" /\ errand.kind = "write"
  /\ IF target # "none" /\ ~errand.overwrite
     THEN ending' = "exists" /\ Moved("over") /\ UNCHANGED target
     ELSE target' = "part" /\ Moved("writing") /\ UNCHANGED ending
  /\ UNCHANGED <<errand, hops, link, got, scratch, appeared, watching, overdue, abandoned>>
WriteText(works) ==
  /\ phase = "writing" /\ Moved("over")
  /\ ending' = IF works THEN "ok" ELSE "failed"
  /\ target' = IF works THEN "whole" ELSE "part"
  /\ UNCHANGED <<errand, hops, link, got, scratch, appeared, watching, overdue, abandoned>>

TransferNext ==
  \/ TimeIsUp \/ CallOff \/ FileAppears \/ Interrupt \/ BeginDownload \/ BeginRequest \/ Dial \/ DialFails
  \/ FollowRedirect \/ ReadHead \/ NextTurn \/ ReadPiece \/ ReadNothing \/ ReadBreaks
  \/ AcceptAnswer \/ AcceptFile \/ Place \/ StopWatcher \/ CleanAfter \/ OpenForWriting
  \/ \E works \in BOOLEAN : WriteText(works)
TransferSpec == TransferInit /\ [][TransferNext]_transferVars

----------------------------------------------------------------------------
(* Properties.                                                              *)

(* A reported success means the whole answer: an end that the watcher made by *)
(* shutting the socket down is never taken for the server's.                *)
SuccessIsWhole ==
  ending = "ok" /\ errand.kind # "write" =>
    got = errand.size \/ (errand.kind = "request" /\ got > PieceLimit)

(* A download never leaves part of a file, nor a new one after an error.    *)
NothingPartial ==
  errand.kind = "download" => target # "part" /\ (target = "whole" => ending = "ok")

(* Without permission to overwrite, no file is lost, not even one that      *)
(* another program made after the check.                                    *)
OthersFilesKept == appeared /\ ~errand.overwrite => target = "theirs"

(* At the end the watcher is gone, the socket closed, the temporary file away.*)
TransferTidy == phase = "over" => ~watching /\ link = "none" /\ ~scratch

TransfersSettle == SuccessIsWhole /\ NothingPartial /\ OthersFilesKept /\ TransferTidy
=============================================================================
