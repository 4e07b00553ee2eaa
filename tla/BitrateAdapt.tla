---------------------------- MODULE BitrateAdapt ----------------------------
(***************************************************************************)
(* The sender's bitrate: the control handler hands the loss of each        *)
(* ReceiverReport to a bounded channel (handle_control.rs), once a second  *)
(* BitrateAdaptUseCase drains it and moves the target                      *)
(* (bitrate_adapt.rs), and the encoder takes the target over with the next *)
(* frame (audio.rs, next_frame).  The three run concurrently.              *)
(*                                                                         *)
(* RTT and loss matter only by the side of the two thresholds they are on. *)
(***************************************************************************)
EXTENDS Integers, Sequences

CONSTANTS
    MinBitrate, MaxBitrate,     \* 16000 and 96000 bit/s
    DefaultBitrate,             \* 64000
    IncreaseStep,               \* 4000
    Capacity                    \* of the channel: 16

ASSUME BitrateAssumption ==
    /\ MinBitrate \in Nat /\ MaxBitrate \in Nat /\ DefaultBitrate \in MinBitrate .. MaxBitrate
    /\ IncreaseStep \in Nat \ {0}
    /\ Capacity \in Nat \ {0}

VARIABLES
    rtt,        \* of the connection
    reports,    \* the channel
    latest,     \* latest_report
    target,     \* the SharedBitrateTarget
    encoder,    \* current_bitrate of the encoder
    newest,     \* history: the last report that came
    dropped     \* history: that report did not fit into the channel

rateCode == <<rtt, reports, latest, target, encoder>>
rateVars == <<rateCode, newest, dropped>>

Levels   == {"good", "fair", "bad"}
Bitrates == MinBitrate .. MaxBitrate
NoneYet  == "none"

RateTypeOK ==
    /\ rtt \in Levels
    /\ reports \in Seq(Levels) /\ Len(reports) <= Capacity
    /\ latest \in Levels \cup {NoneYet}
    /\ target \in Bitrates
    /\ encoder \in Bitrates
    /\ newest \in Levels \cup {NoneYet}
    /\ dropped \in BOOLEAN

RateInit ==
    /\ rtt = "good"
    /\ reports = <<>>
    /\ latest = NoneYet
    /\ target = DefaultBitrate
    /\ encoder = DefaultBitrate
    /\ newest = NoneYet
    /\ dropped = FALSE

----------------------------------------------------------------------------
\* HandleControl: try_send; a full channel drops the report.
OnReceiverReport(loss) ==
    /\ newest' = loss
    /\ dropped' = (Len(reports) = Capacity)
    /\ reports' = IF Len(reports) < Capacity THEN Append(reports, loss) ELSE reports
    /\ UNCHANGED <<rtt, latest, target, encoder>>

\* The path gets better or worse.
RttChanges ==
    /\ rtt' \in Levels
    /\ UNCHANGED <<reports, latest, target, encoder, newest, dropped>>

(* A faulty variant, to see the properties fail: the bitrate never recovers. *)
Decided_NeverUp(current, loss) ==
    IF rtt = "bad" \/ loss = "bad" THEN current \div 2 ELSE current

\* Additive increase, multiplicative decrease.
Decided(current, loss) ==
    IF rtt = "bad" \/ loss = "bad" THEN current \div 2
    ELSE IF rtt = "good" /\ loss \in {"good", NoneYet} THEN current + IncreaseStep
    ELSE current

(* A faulty variant, to see the properties fail: there is no lower limit. *)
Clamped_OnlyAbove(rate) == IF rate > MaxBitrate THEN MaxBitrate ELSE rate

Clamped(rate) ==
    IF rate < MinBitrate THEN MinBitrate
    ELSE IF rate > MaxBitrate THEN MaxBitrate ELSE rate

(* A faulty variant, to see the properties fail: one report per tick. *)
Adapt_OneReport ==
    /\ latest' = IF reports = <<>> THEN latest ELSE Head(reports)
    /\ reports' = IF reports = <<>> THEN reports ELSE Tail(reports)
    /\ target' = Clamped(Decided(target, latest'))
    /\ UNCHANGED <<rtt, encoder, newest, dropped>>

\* Once a second: drain the channel, keep the last report, move the target.
\* With nothing new in the channel the last report is used again.
Adapt ==
    /\ latest' = IF reports = <<>> THEN latest ELSE reports[Len(reports)]
    /\ reports' = <<>>
    /\ target' = Clamped(Decided(target, latest'))
    /\ UNCHANGED <<rtt, encoder, newest, dropped>>

\* next_frame reads the target before it waits for samples.
NextFrame ==
    /\ encoder' = target
    /\ UNCHANGED <<rtt, reports, latest, target, newest, dropped>>

RateNext ==
    \/ \E loss \in Levels : OnReceiverReport(loss)
    \/ RttChanges \/ Adapt \/ NextFrame

RateSpec == RateInit /\ [][RateNext]_rateVars

\* The interval timer keeps firing and the microphone keeps delivering.
FairRateSpec == RateSpec /\ WF_rateVars(Adapt) /\ WF_rateVars(NextFrame)

----------------------------------------------------------------------------
(* Properties *)

\* The bitrate is raised only when neither the path nor the newest report
\* speaks against it, unless the channel had no room for that report.
RaisedOnlyOnGoodNews ==
    [][target' > target => rtt = "good" /\ (newest \in {"good", NoneYet} \/ dropped)]_rateVars

\* When conditions stay good, and bad news is really over, the encoder ends up
\* at the highest bitrate; when they stay bad, at the lowest.
Good == rtt = "good" /\ newest \in {"good", NoneYet} /\ ~dropped
Bad  == rtt = "bad"

FollowsLastingConditions ==
    /\ <>[]Good => <>[](encoder = MaxBitrate)
    /\ <>[]Bad  => <>[](encoder = MinBitrate)

=============================================================================
