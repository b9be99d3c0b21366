----------------------------- MODULE HeaderRules -----------------------------
(***************************************************************************)
(* The rules a header must obey on its branch: the median of past          *)
(* timestamps, the ASERT target, the proof of work and its key block       *)
(* (asert.rs, time.rs, work.rs, target.rs, header.rs and pow.rs of         *)
(* oregon-consensus, key.rs and target.rs of oregon-pow).                  *)
(*                                                                         *)
(* branch is the sequence of accepted headers, the anchor of height 0      *)
(* first; work is its cumulative work.  Targets and hashes are numbers of  *)
(* Width bits (256 in the code); an option is a set.                       *)
(***************************************************************************)
EXTENDS Integers, SequencesExt

CONSTANTS
  Width,                                 \* bits of a target
  InitialTarget, PowLimit,               \* ConsensusParams
  GenesisTimestamp,
  BlockSeconds, HalfLife,                \* TARGET_BLOCK_SECONDS, ASERT_HALF_LIFE_SECONDS
  RadixBits,                             \* ASERT_RADIX is 2^RadixBits
  Cubic, CubicBits,                      \* the factor's polynomial and its scale
  Window,                                \* timestamps in the median, 11
  KeyEpoch, KeyDelay,                    \* RANDOMX_KEY_EPOCH, RANDOMX_KEY_DELAY
  Timestamps, PowHashes,                    \* what headers come with
  Instants,                              \* timestamps targets are compared at
  MaxHeight                              \* bound: length of the branch

Radix == 2 ^ RadixBits

ASSUME ConsensusParams ==
  /\ InitialTarget \in 1..PowLimit /\ PowLimit < 2 ^ Width
  /\ HalfLife > 0 /\ Window % 2 = 1 /\ KeyDelay < KeyEpoch

VARIABLES branch, work

header_vars == <<branch, work>>

HeaderInit ==
  /\ branch = <<[timestamp |-> GenesisTimestamp, target |-> PowLimit]>>
  /\ work = 0

-----------------------------------------------------------------------------
(* mtp_window and median_time_past: the upper median of the last Window.    *)
mtp_window(b) ==
  LET n == IF Len(b) < Window THEN Len(b) ELSE Window
  IN [i \in 1..n |-> b[Len(b) + 1 - i].timestamp]

median_time_past(window) ==
  LET sorted == SortSeq(window, LAMBDA x, y : x < y)
  IN sorted[(Len(window) \div 2) + 1]

Mtp(b) == median_time_past(mtp_window(b))

-----------------------------------------------------------------------------
(* Division as the code's integers do it: towards zero.                     *)
Quotient(n, d) == IF n < 0 THEN -((-n) \div d) ELSE n \div d

drift(height, parent_timestamp) ==
  (parent_timestamp - GenesisTimestamp) - BlockSeconds * ((height - 2) + 1)

exponent(height, parent_timestamp) ==
  Quotient(drift(height, parent_timestamp) * Radix, HalfLife)

num_shifts(e) == e \div Radix

frac(e) == e - num_shifts(e) * Radix

(* Mutant: the factor of a fraction of a half-life lacks its whole part.     *)
FactorBelowRadix(f) ==
  (Cubic[1] * f + Cubic[2] * f * f + Cubic[3] * f * f * f
     + 2 ^ (CubicBits - 1)) \div 2 ^ CubicBits

(* 2 ^ (f / radix) in units of the radix, by a cubic polynomial.            *)
factor(f) ==
  ((Cubic[1] * f + Cubic[2] * f * f + Cubic[3] * f * f * f
      + 2 ^ (CubicBits - 1)) \div 2 ^ CubicBits) + Radix

clamped(candidate) ==
  IF candidate = 0 THEN {1}
  ELSE IF candidate > PowLimit THEN {PowLimit} ELSE {candidate}

(* The shift is not even tried where its result is known.                   *)
shifted(shifts, product) ==
  IF shifts >= Width THEN {PowLimit}
  ELSE IF shifts <= -(Width + 1) THEN {1}
  ELSE IF shifts < 0 THEN clamped((product \div 2 ^ (-shifts)) \div Radix)
  ELSE clamped((product * 2 ^ shifts) \div Radix)

(* required_target: {} is an error.                                         *)
required_target(height, parent_timestamp) ==
  LET e == exponent(height, parent_timestamp)
  IN IF height = 0 THEN {}
     ELSE IF height = 1 THEN {InitialTarget}
     ELSE IF frac(e) \notin 0..(Radix - 1) THEN {}
     ELSE shifted(num_shifts(e), InitialTarget * factor(frac(e)))

-----------------------------------------------------------------------------
block_work(target) == 2 ^ Width \div (target + 1)

key_block_height(height) ==
  IF height < KeyEpoch + KeyDelay THEN 0
  ELSE ((height - KeyDelay) \div KeyEpoch) * KeyEpoch

hash_meets_target(hash, target) == hash <= target

(* Mutant: a timestamp may equal the median.                                 *)
AfterMtpOrAt(timestamp, mtp) == timestamp >= mtp

(* A header is strictly later than the median of the window before it.      *)
after_mtp(timestamp, mtp) == timestamp > mtp

(* validate_header_pre_pow                                                  *)
validate_header_pre_pow(header, height, parent) ==
  /\ height # 0
  /\ after_mtp(header.timestamp, Mtp(branch))
  /\ header.target # 0 /\ header.target <= PowLimit
  /\ {header.target} = required_target(height, parent.timestamp)

(* validate_header_pow: the key block is one of the branch.                 *)
validate_header_pow(header, height, hash) ==
  /\ key_block_height(height) + 1 \in DOMAIN branch
  /\ hash_meets_target(hash, header.target)

(* validate_candidate_header on the tip of the branch.                      *)
AcceptHeader(header, hash) ==
  LET height == Len(branch)
  IN /\ validate_header_pre_pow(header, height, Last(branch))
     /\ validate_header_pow(header, height, hash)
     /\ branch' = Append(branch, header)
     /\ work' = work + block_work(header.target)

(* The difficulties a header may commit to: right, zero and too easy.       *)
Commitments ==
  required_target(Len(branch), Last(branch).timestamp) \cup {0, 2 ^ Width - 1}

HeaderNext ==
  /\ Len(branch) <= MaxHeight
  /\ \E t \in Timestamps, d \in Commitments, h \in PowHashes :
       AcceptHeader([timestamp |-> t, target |-> d], h)

HeaderSpec == HeaderInit /\ [][HeaderNext]_header_vars

-----------------------------------------------------------------------------
Prefix(n) == SubSeq(branch, 1, n)

(* The median clock of a branch never goes back, and moves on within half a *)
(* window of blocks, whatever timestamps the blocks carry.                  *)
MedianAdvances ==
  \A m, n \in DOMAIN branch :
    m < n => /\ Mtp(Prefix(m)) <= Mtp(Prefix(n))
             /\ m >= Window /\ n - m > Window \div 2 =>
                  Mtp(Prefix(m)) < Mtp(Prefix(n))

(* The later the parent, the easier the next block, across half-lives too.  *)
LaterIsEasier ==
  \A t, u \in Instants : t < u =>
    \A d \in required_target(Len(branch), t),
       x \in required_target(Len(branch), u) : d <= x

=============================================================================
