---------------------------- MODULE QuietFolders ----------------------------
(* The precondition document_quiescent: a folder may be archived once nothing *)
(* in it has changed for a while. Rules that look at the same folder share  *)
(* one observation per folder; the files change while they are being listed.*)
EXTENDS Naturals, Sequences, FiniteSets, SequencesExt

CONSTANTS Checkers,          \* rules that check
          Watched,           \* folders
          FileIds,           \* files of a folder
          Quiet,             \* quiet_seconds, by rule
          MaxObservations,   \* folders remembered (_MAX_OBSERVATIONS, 64)
          MaxStamps,         \* bound: changes
          LastMoment         \* bound: seconds

ASSUME QuietConstants == Quiet \in [Checkers -> Nat] /\ MaxObservations \in Nat

VARIABLES moment,            \* time.monotonic()
          stamps,            \* changes made so far
          contents,          \* the last change of each file: its size and mtime
          observed,          \* _observations, in the order of insertion
          checker,           \* what each rule is doing
          listing            \* _observations_lock: the rule that holds it

quietVars == <<moment, stamps, contents, observed, checker, listing>>

NothingSeen == [i \in {} |-> 0]
AtEase == [at |-> "idle", of |-> "", seen |-> NothingSeen, began |-> 0, since |-> 0, waited |-> 0]

QuietInit ==
  /\ moment = 0 /\ stamps = 0
  /\ contents = [d \in Watched |-> [i \in FileIds |-> 0]]
  /\ observed = <<>> /\ checker = [k \in Checkers |-> AtEase] /\ listing = "nobody"

----------------------------------------------------------------------------
TimePasses ==
  /\ moment < LastMoment /\ moment' = moment + 1
  /\ UNCHANGED <<stamps, contents, observed, checker, listing>>

(* A file is made, written or removed.                                      *)
ChangeFile(d, i) ==
  /\ stamps < MaxStamps /\ stamps' = stamps + 1
  /\ contents' = [contents EXCEPT ![d][i] = stamps + 1]
  /\ UNCHANGED <<moment, observed, checker, listing>>

(* check_precondition takes the lock and lists the folder, file after file. *)
BeginListing(k, d) ==
  /\ checker[k].at = "idle" /\ listing = "nobody" /\ listing' = k
  /\ checker' = [checker EXCEPT ![k] = [AtEase EXCEPT !.at = "listing", !.of = d, !.began = stamps]]
  /\ UNCHANGED <<moment, stamps, contents, observed>>
ListFile(k, i) ==
  /\ checker[k].at = "listing" /\ i \notin DOMAIN checker[k].seen
  /\ checker' = [checker EXCEPT ![k].seen =
       [j \in DOMAIN @ \cup {i} |-> IF j = i THEN contents[checker[k].of][i] ELSE @[j]]]
  /\ UNCHANGED <<moment, stamps, contents, observed, listing>>

EntryOf(d) == CHOOSE n \in 0 .. Len(observed) :
              IF n = 0 THEN \A m \in DOMAIN observed : observed[m].of # d ELSE observed[n].of = d
(* taken and stamps are history: when the folder looked like this, and what *)
(* had changed by then.                                                     *)
Look(k) == [of |-> checker[k].of, seen |-> checker[k].seen, at |-> moment,
            taken |-> moment, stamps |-> stamps]

(* A folder remembered keeps its place; the oldest place is given up.       *)
KeepLook(entry) ==
  LET n == EntryOf(entry.of)
      all == IF n = 0 THEN Append(observed, entry) ELSE [observed EXCEPT ![n] = entry]
  IN IF Len(all) > MaxObservations THEN Tail(all) ELSE all

Observe(k) ==
  /\ checker[k].at = "listing" /\ DOMAIN checker[k].seen = FileIds /\ listing' = "nobody"
  /\ LET n == EntryOf(checker[k].of) IN
     IF n = 0 \/ observed[n].seen # checker[k].seen
     THEN /\ observed' = KeepLook(Look(k)) /\ checker' = [checker EXCEPT ![k] = AtEase]
     ELSE /\ UNCHANGED observed
          /\ checker' = [checker EXCEPT ![k] =
               IF moment - observed[n].at < Quiet[k] THEN AtEase
               ELSE [@ EXCEPT !.at = "judging", !.since = observed[n].stamps,
                              !.waited = moment - observed[n].taken]]
  /\ UNCHANGED <<moment, stamps, contents>>

(* Files in use or documents open in an editor; then the answer.            *)
Judge(k, free) ==
  /\ checker[k].at = "judging"
  /\ checker' = [checker EXCEPT ![k] = IF free THEN [@ EXCEPT !.at = "quiet"] ELSE AtEase]
  /\ UNCHANGED <<moment, stamps, contents, observed, listing>>
Acknowledge(k) ==
  /\ checker[k].at = "quiet" /\ checker' = [checker EXCEPT ![k] = AtEase]
  /\ UNCHANGED <<moment, stamps, contents, observed, listing>>

QuietNext ==
  \/ TimePasses
  \/ \E d \in Watched, i \in FileIds : ChangeFile(d, i)
  \/ \E k \in Checkers :
       \/ \E d \in Watched : BeginListing(k, d)
       \/ \E i \in FileIds : ListFile(k, i)
       \/ \E free \in BOOLEAN : Judge(k, free)
       \/ Observe(k) \/ Acknowledge(k)
QuietSpec == QuietInit /\ [][QuietNext]_quietVars

----------------------------------------------------------------------------
(* A folder reported as quiet has not changed from an observation that is at*)
(* least quiet_seconds old until this check began to list it, whichever rule*)
(* made that observation; what changes during the listing may be missed.    *)
QuietMeansUnchanged ==
  \A k \in Checkers : checker[k].at = "quiet" =>
    /\ checker[k].waited >= Quiet[k]
    /\ \A i \in FileIds :
         contents[checker[k].of][i] <= checker[k].since \/ contents[checker[k].of][i] > checker[k].began
=============================================================================
