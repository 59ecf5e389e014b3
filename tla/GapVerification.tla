--------------------------- MODULE GapVerification ---------------------------
(***************************************************************************)
(* How a refresh of the history worker explains the holes of a series      *)
(* before it publishes it (HistoryService._verify_gaps of                  *)
(* history/worker.py, and what fetch_incremental does before and after     *)
(* it).  The range response for a hole is its truth: bars it has are       *)
(* staged, and a hole it leaves is certified.  A refresh asks for a few    *)
(* holes only; what it learnt is used by the next ones, for an hour.       *)
(*                                                                         *)
(* The account is that of one session (HistoryPublication has the others). *)
(***************************************************************************)
EXTENDS Integers, FiniteSets

CONSTANTS
  LastTime,    \* times of the series
  CallBudget,  \* range calls of one refresh
  MaxMishaps   \* bound: expiries, revisions, failures and crashes

ASSUME GapAssumption ==
  /\ LastTime \in Nat \ {0} /\ CallBudget \in Nat /\ MaxMishaps \in Nat

VARIABLES
  truth,    \* the bars at the broker, with their version
  shown,    \* the times that positional reads have
  file,     \* the CSV file
  ready,    \* its marker stands
  staged,   \* _staged_gaps: the rows of a response, by the hole asked for
  certs,    \* _verified_gaps
  round,    \* the refresh
  unsaved,  \* filled holes whose file could not be written, by their two sides
  mishaps

gapVars == <<truth, shown, file, ready, staged, certs, round, unsaved, mishaps>>

Moments == 1..LastTime
Series  == UNION {[ts -> 0..1] : ts \in SUBSET Moments}
NoSeries == [t \in {} |-> 0]

Part(bs, ts) == [t \in DOMAIN bs \cap ts |-> bs[t]]
Over(new, old) ==
  [x \in DOMAIN new \cup DOMAIN old |-> IF x \in DOMAIN new THEN new[x] ELSE old[x]]

(* A hole is a pair of neighbours with times between them; its signature   *)
(* has the bars on both sides.                                             *)
Inside(h) == (h[1] + 1)..(h[2] - 1)
Holes(bs) ==
  {h \in (DOMAIN bs) \X (DOMAIN bs) :
     h[1] + 1 < h[2] /\ DOMAIN bs \cap Inside(h) = {}}
Signature(bs, h) == [left |-> h[1], right |-> h[2], bars |-> <<bs[h[1]], bs[h[2]]>>]
Signatures(bs) == {Signature(bs, h) : h \in Holes(bs)}
Fills(bs, s) == DOMAIN bs \cap Inside(<<s.left, s.right>>) # {}

Marks == [left : Moments, right : Moments, bars : (0..1) \X (0..1)]
NoRound == [pc |-> "idle", frame |-> NoSeries, at |-> 0, calls |-> 0,
            found |-> NoSeries, active |-> {}]

GapsTypeOK ==
  /\ truth \in Series /\ shown \subseteq DOMAIN truth
  /\ file \in Series /\ ready \in BOOLEAN
  /\ DOMAIN staged \subseteq Marks /\ \A s \in DOMAIN staged : staged[s] \in Series
  /\ certs \subseteq Marks /\ unsaved \subseteq Moments \X Moments
  /\ round \in [pc : {"idle", "verify", "write"}, frame : Series, at : 0..LastTime,
                calls : 0..CallBudget, found : Series, active : SUBSET Marks]
  /\ mishaps \in 0..MaxMishaps
  /\ round.pc = "write" => certs = round.active

Mishap == mishaps < MaxMishaps /\ mishaps' = mishaps + 1

(* The broker is closed at some times, and its positional reads may lack   *)
(* bars that range reads have.                                             *)
GapsInit ==
  /\ \E open \in SUBSET (2..(LastTime - 1)), seen \in SUBSET (2..(LastTime - 1)) :
       /\ seen \subseteq open
       /\ truth = [t \in open \cup {1, LastTime} |-> 0]
       /\ shown = seen \cup {1, LastTime}
  /\ file = NoSeries /\ ready = FALSE
  /\ staged = <<>> /\ certs = {}
  /\ round = NoRound
  /\ unsaved = {} /\ mishaps = 0

-----------------------------------------------------------------------------
(* The positional pages are merged over the file; staged rows of holes     *)
(* that are no longer there are dropped.                                   *)
BeginRound ==
  /\ round.pc = "idle"
  /\ LET frame == Over(Part(truth, shown), file) IN
     /\ round' = [NoRound EXCEPT !.pc = "verify", !.frame = frame]
     /\ staged' = [s \in DOMAIN staged \cap Signatures(frame) |-> staged[s]]
  /\ UNCHANGED <<truth, shown, file, ready, certs, unsaved, mishaps>>

(* The holes are taken from the oldest to the newest. *)
Left == {h \in Holes(round.frame) : h[1] >= round.at}
Hole == CHOOSE h \in Left : \A other \in Left : h[1] <= other[1]
Asked == Signature(round.frame, Hole)

(* except Exception: the marker is removed. *)
Abandon ==
  /\ ready' = FALSE
  /\ round' = NoRound

(* A staged response is taken again, a certified hole is passed.  For any  *)
(* other one the broker is asked, or the refresh ends for lack of budget.  *)
UseStaged ==
  /\ Asked \in DOMAIN staged
  /\ round' = [round EXCEPT !.at = Hole[2], !.active = @ \cup {Asked},
                            !.found = Over(staged[Asked], @)]
  /\ UNCHANGED <<ready, staged, certs>>

UseCertificate ==
  /\ Asked \notin DOMAIN staged /\ Asked \in certs
  /\ round' = [round EXCEPT !.at = Hole[2], !.active = @ \cup {Asked}]
  /\ UNCHANGED <<ready, staged, certs>>

Response == Part(truth, Hole[1]..Hole[2])

BugProgressNotKept ==
  /\ Asked \notin DOMAIN staged \cup certs
  /\ round.calls < CallBudget
  /\ staged' = IF Response = Part(round.frame, Hole[1]..Hole[2]) THEN staged
                 ELSE Over([s \in {Asked} |-> Response], staged)
  /\ round' = [round EXCEPT !.at = Hole[2], !.calls = @ + 1,
                            !.active = @ \cup {Asked} \cup Signatures(Response),
                            !.found = Over(Response, @)]
  /\ UNCHANGED <<ready, certs>>

(* Rows other than the two sides of the hole are staged, and the holes the *)
(* response leaves are certified, at once: a refresh that does not get     *)
(* through keeps them.                                                     *)
AskBroker ==
  /\ Asked \notin DOMAIN staged \cup certs
  /\ round.calls < CallBudget
  /\ staged' = IF Response = Part(round.frame, Hole[1]..Hole[2]) THEN staged
                 ELSE Over([s \in {Asked} |-> Response], staged)
  /\ certs' = certs \cup Signatures(Response)
  /\ round' = [round EXCEPT !.at = Hole[2], !.calls = @ + 1,
                            !.active = @ \cup {Asked} \cup Signatures(Response),
                            !.found = Over(Response, @)]
  /\ UNCHANGED ready

OutOfBudget ==
  /\ Asked \notin DOMAIN staged \cup certs
  /\ round.calls = CallBudget
  /\ Abandon
  /\ UNCHANGED <<staged, certs>>

VerifyHole ==
  /\ round.pc = "verify" /\ Left # {}
  /\ UseStaged \/ UseCertificate \/ AskBroker \/ OutOfBudget
  /\ UNCHANGED <<truth, shown, file, unsaved, mishaps>>

(* All holes are explained: those of this refresh replace the certificates *)
(* there were, and the responses are merged over the frame.                *)
EndVerification ==
  /\ round.pc = "verify" /\ Left = {}
  /\ certs' = round.active
  /\ round' = [round EXCEPT !.pc = "write", !.frame = Over(round.found, @)]
  /\ UNCHANGED <<truth, shown, file, ready, staged, unsaved, mishaps>>

Publish ==
  /\ round.pc = "write"
  /\ file' = round.frame /\ ready' = TRUE
  /\ round' = NoRound
  /\ UNCHANGED <<truth, shown, staged, certs, unsaved, mishaps>>

-----------------------------------------------------------------------------
(* The file cannot be written, or only the marker cannot. *)
WriteFails ==
  /\ round.pc = "write"
  /\ Mishap /\ Abandon
  /\ \/ /\ file' = file
        /\ unsaved' = unsaved \cup
             {<<s.left, s.right>> : s \in {c \in certs : Fills(round.frame, c)}}
     \/ file' = round.frame /\ unsaved' = unsaved
  /\ UNCHANGED <<truth, shown, staged, certs>>

(* A page or a range is not read, or not in time. *)
ReadFails ==
  /\ round.pc = "verify"
  /\ Mishap /\ Abandon
  /\ UNCHANGED <<truth, shown, file, staged, certs, unsaved>>

(* An hour has passed since the first staged row, or the first             *)
(* certificate: each has an hour of its own.                               *)
Expire ==
  /\ round.pc = "idle"
  /\ Mishap
  /\ \/ staged # <<>> /\ staged' = <<>> /\ certs' = certs
     \/ certs # {} /\ certs' = {} /\ staged' = staged
  /\ UNCHANGED <<truth, shown, file, ready, round, unsaved>>

(* The broker revises a bar. *)
ReviseBar ==
  /\ Mishap
  /\ \E t \in DOMAIN truth : truth[t] = 0 /\ truth' = [truth EXCEPT ![t] = 1]
  /\ UNCHANGED <<shown, file, ready, staged, certs, round, unsaved>>

(* The worker dies, between its two replacements perhaps. *)
Die ==
  /\ Mishap
  /\ file' = file \/ (round.pc = "write" /\ file' = round.frame)
  /\ round' = NoRound /\ staged' = <<>> /\ certs' = {}
  /\ UNCHANGED <<truth, shown, ready, unsaved>>

RefreshGaps == BeginRound \/ VerifyHole \/ EndVerification \/ Publish
GapsNext == RefreshGaps \/ WriteFails \/ ReadFails \/ Expire \/ ReviseBar \/ Die

-----------------------------------------------------------------------------
(* Properties *)

(* Where a ready file has a hole, the broker has no bar: what an earlier   *)
(* refresh learnt is never taken for more than it was.  The exception is   *)
(* the code's own: it also certifies a hole that a response has filled, so *)
(* that the hole passes if the file could not be written and the staged    *)
(* rows expire.                                                            *)
HolesAreTrue ==
  ready => \A h \in Holes(file) : DOMAIN truth \cap Inside(h) = {} \/ h \in unsaved

(* Refreshes that ask for a few holes each get through all of them in the  *)
(* end, whatever is forgotten, revised or lost on the way, and the file    *)
(* they publish has only true holes.                                       *)
GapsSettle == (round.pc = "verify" ~> []ready) /\ []HolesAreTrue
=============================================================================
