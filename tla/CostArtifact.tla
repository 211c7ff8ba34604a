---------------------------- MODULE CostArtifact ----------------------------
(***************************************************************************)
(* What the fitters of the rollout and of the training cost models share:   *)
(* the holdout of whole launches and the lookup of one fitted cell.         *)
(*                                                                          *)
(* A profile is a sequence of records.  Records are identified by their     *)
(* position, so that equal observations stay apart.  Launches are numbered  *)
(* in the order of the hash of their run_id: the code's ranking of the      *)
(* launches is the order of the numbers.                                    *)
(***************************************************************************)
EXTENDS Integers, Sequences, FiniteSets, FiniteSetsExt, SequencesExt

CONSTANT Missing   \* what was not measured, and the answer where the code raises

\* Python's round(n / d): to the nearest integer, ties to the even one.
RoundHalfEven(n, d) ==
    LET low == n \div d
        rest == 2 * (n % d)
    IN IF rest > d \/ (rest = d /\ low % 2 = 1) THEN low + 1 ELSE low

\* Broken variant: single records are held out, not whole launches.
SplitByRecord(S, launch, num, den) ==
    LET count == Max({1, RoundHalfEven(Cardinality(S) * num, den)})
        heldOut == {i \in S : Cardinality({j \in S : j <= i}) <= count}
    IN IF num = 0 \/ Cardinality(S) < 2 \/ heldOut = S
       THEN [train |-> S, validation |-> S]
       ELSE [train |-> S \ heldOut, validation |-> heldOut]

(***************************************************************************)
(* split_by_run and _split_records: the records at the positions in S, the  *)
(* launch of each, and the share num / den of launches to hold out.         *)
(***************************************************************************)
SplitByRun(S, launch, num, den) ==
    LET runs == {launch[i] : i \in S}
        count == Max({1, RoundHalfEven(Cardinality(runs) * num, den)})
        heldOut == {u \in runs : Cardinality({v \in runs : v <= u}) <= count}
        train == {i \in S : launch[i] \notin heldOut}
    IN IF num = 0 \/ Cardinality(runs) < 2 \/ train = {}
       THEN [train |-> S, validation |-> S]
       ELSE [train |-> train, validation |-> S \ train]

(***************************************************************************)
(* entry_for: the one entry of a topology whose selector has the requested  *)
(* values; no entry and several are both a KeyError.                        *)
(***************************************************************************)
Selects(selector, requested) ==
    \A k \in DOMAIN requested : k \in DOMAIN selector /\ selector[k] = requested[k]

Matches(entries, parallelism, requested) ==
    {i \in DOMAIN entries :
        /\ entries[i].parallelism = parallelism
        /\ Selects(entries[i].selector, requested)}

HasEntryFor(entries, parallelism, requested) ==
    Cardinality(Matches(entries, parallelism, requested)) = 1

EntryFor(entries, parallelism, requested) ==
    entries[CHOOSE i \in Matches(entries, parallelism, requested) : TRUE]

\* The smallest and the largest value of a feature.
RangeOf(values) == [low |-> Min(values), high |-> Max(values)]

\* read_records: the records of one type, in the order of the file.
ReadRecords(profile, kind) ==
    FoldLeft(LAMBDA kept, r : IF r.kind = kind THEN Append(kept, r) ELSE kept,
             <<>>, profile)

\* An artifact targets one GPU type (and one model, which is not modelled).
OneTarget(records) == Cardinality({records[i].gpu : i \in DOMAIN records}) = 1

Launches(records) == [i \in DOMAIN records |-> records[i].run]
=============================================================================
