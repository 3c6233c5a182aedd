---------------------------- MODULE Measurements ----------------------------
(***************************************************************************)
(* What the framework measures, as operators: the performance tracker      *)
(* (lib/performance.py) and the two statistics of                          *)
(* system/monitor_curve_samples.py.  Loops are functions of the number of  *)
(* elements read so far.  Times are integers, in units fine enough for     *)
(* those that are compared.                                                *)
(***************************************************************************)
EXTENDS Integers, Sequences, FiniteSets

CONSTANT PacketGap \* units of a curve's time stamps in 3 ms

ASSUME GapAssumption == PacketGap \in Nat \ {0}

-----------------------------------------------------------------------------
(* PerformanceTracker: a sequence of records.                              *)

Record(name, elapsed_ms, threshold_ms) ==
  [name |-> name, elapsed_ms |-> elapsed_ms, passed |-> elapsed_ms <= threshold_ms]

(* The dictionary of the baseline keeps the last record of a name. *)
Named(records, name) == {i \in DOMAIN records : records[i].name = name}

Baseline(records, name) ==
  LET last == CHOOSE i \in Named(records, name) :
                \A j \in Named(records, name) : j <= i
  IN records[last].elapsed_ms

(* Faults a change of the code could introduce, here and below: nothing    *)
(* uses them.                                                              *)
SlowerOrEqual(ms, baseline_ms) == 2 * ms >= 3 * baseline_ms
Slower(ms, baseline_ms) == 2 * ms > 3 * baseline_ms

(* A round of the loop of compare_with_baseline: record k may be told as a *)
(* degradation.  The message divides by the baseline: ZeroDivisionError,   *)
(* which ends the loop.                                                    *)
CompareOne(s, k, rec, baseline) ==
  LET baseline_ms == Baseline(baseline, rec.name)
      slower == Named(baseline, rec.name) # {} /\ Slower(rec.elapsed_ms, baseline_ms)
  IN IF s.raised \/ ~slower THEN s
     ELSE IF baseline_ms = 0 THEN [told |-> s.told, raised |-> TRUE]
     ELSE [told |-> s.told \cup {k}, raised |-> FALSE]

Compare(records, baseline) ==
  LET loop[k \in 0 .. Len(records)] ==
        IF k = 0 THEN [told |-> {}, raised |-> FALSE]
        ELSE CompareOne(loop[k - 1], k, records[k], baseline)
  IN loop[Len(records)]

-----------------------------------------------------------------------------
(* analyze: the points of a recorded curve, grouped into packets.          *)

(* Time stamps are decimal numbers of seconds, and their difference, times *)
(* 1000, is computed in doubles, which err by far less than the last digit *)
(* of a stamp.  So only a difference of exactly 3 ms is in doubt: it may   *)
(* come out below 3, as that of 1.003 and 1.000 does, or not.  down are    *)
(* the points before which it does.                                        *)
SamePacket(dt, is_down) == dt < PacketGap \/ (dt = PacketGap /\ is_down)

(* The loop after k points: the packets that are complete, the points of   *)
(* the one that is not, and the gaps between packets.                      *)
NewPacketEmpty(s, dt) ==
  [runs |-> Append(s.runs, s.run), run |-> 0, gaps |-> Append(s.gaps, dt)]
NewPacket(s, dt) ==
  [runs |-> Append(s.runs, s.run), run |-> 1, gaps |-> Append(s.gaps, dt)]

Scan(t, down) ==
  LET loop[k \in 1 .. Len(t)] ==
        IF k = 1 THEN [runs |-> <<>>, run |-> 1, gaps |-> <<>>]
        ELSE LET s == loop[k - 1]
                 dt == t[k] - t[k - 1]
             IN IF SamePacket(dt, k \in down) THEN [s EXCEPT !.run = @ + 1]
                ELSE NewPacket(s, dt)
  IN loop[Len(t)]

Packets(t, down) == Append(Scan(t, down).runs, Scan(t, down).run)
Gaps(t, down)    == Scan(t, down).gaps

(* The coverage is guarded against a curve without duration, the rate of   *)
(* points printed next to it is not: ZeroDivisionError.                    *)
AnalyzeRaises(t) == Len(t) >= 2 /\ t[Len(t)] = t[1]

-----------------------------------------------------------------------------
(* run_ws: incremental frames on the WebSocket.  A frame is either no      *)
(* incremental frame, or has points and, when its flag says so, the index  *)
(* of each of them.                                                        *)

None == -1

(* A frame's first index is compared with the last index of the frame      *)
(* before it.                                                              *)
GoesBackStrictly(first, last_idx) == last_idx # None /\ first < last_idx
GoesBack(first, last_idx) == last_idx # None /\ first <= last_idx

(* An indexed frame without points has no first index: IndexError, which   *)
(* ends the script.                                                        *)
FrameRaises(f) == f.kind = "indexed" /\ f.idx = <<>>

Count(s, f) ==
  IF s.raised \/ f.kind = "other" THEN s
  ELSE IF FrameRaises(f) THEN [s EXCEPT !.frames = @ + 1, !.raised = TRUE]
  ELSE [frames |-> s.frames + 1,
        pts |-> s.pts + Len(f.idx),
        jumps |-> IF f.kind = "indexed" /\ GoesBack(f.idx[1], s.last_idx)
                    THEN s.jumps + 1 ELSE s.jumps,
        last_idx |-> IF f.kind = "indexed" THEN f.idx[Len(f.idx)] ELSE s.last_idx,
        raised |-> FALSE]

Statistics(frames) ==
  LET loop[k \in 0 .. Len(frames)] ==
        IF k = 0 THEN [frames |-> 0, pts |-> 0, jumps |-> 0, last_idx |-> None,
                       raised |-> FALSE]
        ELSE Count(loop[k - 1], frames[k])
  IN loop[Len(frames)]
=============================================================================
