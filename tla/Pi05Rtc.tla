------------------------------ MODULE Pi05Rtc ------------------------------
(***************************************************************************)
(* The requests of pi0.5 and its real-time chunking: how the leftover of   *)
(* the previous action chunk gets from the floats of a request             *)
(* (serving/server.cpp) through the input adapter to the guidance of the   *)
(* denoising loop (models/pi05/pi05.cpp), and which rows of the new chunk  *)
(* it steers by how much.                                                  *)
(*                                                                         *)
(* The rows of the previous chunk are told apart by their number only.     *)
(***************************************************************************)
EXTENDS Integers

CONSTANTS
  RealDim,      (* cfg.real_action_dim: the floats of a row on the wire     *)
  MaxDim,       (* cfg.max_action_dim: the padded width, the adapter's      *)
  ChunkSize,    (* cfg.n_suffix: the rows of an action chunk                *)
  Rtc,          (* VLA_PI05_RTC                                             *)
  Horizon,      (* VLA_PI05_RTC_HORIZON, 10 if unset                        *)
  Delay,        (* VLA_PI05_RTC_DELAY                                       *)
  Inpaint,      (* VLA_PI05_RTC_X0_INPAINT                                  *)
  Requests,     (* the requests: token counts, floats of the previous       *)
                (* chunk, and does it bring its own noise?                  *)
  Period,       (* of the noise generator                                   *)
  MaxInFlight   (* bound: requests accepted and not computed                *)

ASSUME RtcAssumption ==
  /\ RealDim \in Nat \ {0} /\ MaxDim \in Nat /\ MaxDim >= RealDim
  /\ ChunkSize \in Nat \ {0}
  /\ Horizon \in Nat \ {0} /\ Delay \in Nat
  /\ Rtc \in BOOLEAN /\ Inpaint \in BOOLEAN

ASSUME RequestAssumption ==
  /\ Requests \subseteq [img : Nat, lang : Nat \ {0}, prev : Nat, noise : BOOLEAN]
  /\ Period \in Nat \ {0}
  /\ MaxInFlight \in Nat

\* The adapter's n_prev_chunk.
NPrevChunk(floats) == floats \div MaxDim

\* The schedule is written to vectors of a chunk's rows: a leftover longer than a
\* chunk must be cut by the horizon.  The code checks neither.
ASSUME LeftoverAssumption ==
  \A r \in Requests : Horizon <= ChunkSize \/ NPrevChunk(r.prev) <= ChunkSize

\* parse_request's check of the floats of a previous chunk.
Parsed(floats) == floats % RealDim = 0

Rows == 0..ChunkSize-1

Least(a, b) == IF a <= b THEN a ELSE b

\* L: the rows guided, of n left over.
Guided(n) == Least(Horizon, n)

\* D: the rows that are executed while the chunk is computed.
Frozen(n) == Least(Delay, Guided(n))

\* The denominator of the weights.
Unit(n) == Guided(n) - Frozen(n) + 1

\* Mutant: the ramp does not stop at the horizon.
ScheduleUnbounded(n) == [i \in Rows |-> IF i < Frozen(n) THEN Unit(n) ELSE Guided(n) - i]

\* sched, in units of 1/Unit(n).  The "exp" schedule maps the weights by an
\* increasing function that keeps 0 and 1, and is not told apart.
Schedule(n) ==
  [i \in Rows |-> IF i < Frozen(n) THEN Unit(n) ELSE IF i < Guided(n) THEN Guided(n) - i ELSE 0]

\* Mutant: rows that are not there count as zeros of the previous chunk.
KnownAll(n) == Rows

\* The rows prevh holds of the previous chunk; the others are zeros.
Known(n) == {i \in Rows : i < Least(n, ChunkSize)}

\* The rows of x0 that are not noise.
Inpainted(n) == {i \in Rows : Inpaint /\ i < Guided(n)}

\* The pull is total on rows before the delay at most, weakens from row to row
\* after them, and is never a push.
WellGuided(n) ==
  LET w == Schedule(n) IN
  \A i \in Rows :
    /\ 0 <= w[i] /\ w[i] <= Unit(n)
    /\ w[i] = Unit(n) => i < Delay
    /\ \A j \in Rows : i < j => w[j] <= w[i] /\ (Delay <= i /\ w[i] > 0 => w[j] < w[i])
=============================================================================
