------------------------------ MODULE Cooldown ------------------------------
(***************************************************************************)
(* The cooldown arithmetic every registry of the proxy shares: the cutoff  *)
(* a window gives at a moment, the bucket a cutoff falls in, the marker    *)
(* put into client ETags, and the equivalence of cache validators.         *)
(*                                                                         *)
(* Times are ticks of one second-like unit, 1, 2, ...; 0 stands for "no    *)
(* value" (the code's None) in validators, stamps and windows.             *)
(***************************************************************************)
EXTENDS Integers, Sequences

CONSTANT BucketLen      \* MEMO_BUCKET_SECS, in ticks

ASSUME BucketAssumption == BucketLen \in Nat \ {0}

Unfiltered == -1        \* the None of cutoff_from: nothing is age-gated

CutoffFrom(t, window) ==
  IF window = 0 THEN Unfiltered
  ELSE IF t < window THEN 0 ELSE t - window

Bucket(cutoff) == cutoff \div BucketLen

(* The marker of a filtered body; a window of 0 never filters, so the      *)
(* marker with window 0 is the absent one.                                 *)
NoMarker == [win |-> 0, bkt |-> 0]

MarkerAt(cutoff, window) ==
  IF cutoff = Unfiltered THEN NoMarker
  ELSE [win |-> window, bkt |-> Bucket(cutoff)]

(* CacheEntry: upstream's validators and the moment they were checked.     *)
NoEntry == [etag |-> 0, mtime |-> 0, atime |-> 0]

IsEquivalent(e, f) ==
  \/ e.etag # 0 /\ e.etag = f.etag
  \/ e.mtime # 0 /\ e.mtime = f.mtime

IsExpired(e, t, ttl) == e.atime # 0 /\ t - e.atime > ttl

NoValidator == <<0, 0>>

Validator(e) == IF e.etag # 0 THEN <<e.etag, 0>> ELSE <<0, e.mtime>>

(* Version lines of revision rev of a package that a cutoff lets through.  *)
(* hist[i] is the i-th published version: its moment, and whether its line *)
(* carries a publication date. Undated lines are kept.                     *)
Passes(version, cutoff) ==
  cutoff = Unfiltered \/ ~version.dated \/ version.at <= cutoff

FilterIndex(hist, rev, cutoff) == {i \in 1..rev : Passes(hist[i], cutoff)}
=============================================================================
