------------------------------ MODULE Mdriver -------------------------------
(***************************************************************************)
(* main of mdriver.c: the options, the check of the team's data, the loop  *)
(* over the trace files for libc's malloc and for the package under test,  *)
(* and the performance index.  One process, one trace in memory at a time; *)
(* the stores of the allocator and of the timing package live on from one  *)
(* file to the next.                                                       *)
(*                                                                         *)
(* What is printed on the way is left out, and so is verbose.              *)
(***************************************************************************)
EXTENDS EvalMmPasses

CONSTANT Setups      \* records: num_ops, the requests in each trace file; fcyc, USE_FCYC

ASSUME MdriverAssumption ==
    \A s \in Setups : s.num_ops \in Seq(Nat) /\ s.fcyc \in BOOLEAN

VARIABLES
    setup,       \* -f names one file, else there are the default ones
    phase,       \* "start", "libc", "mm", "done", or "exit" when main gave up
    file,        \* trace files done in this phase
    mm_stats,    \* what is known of each of them
    errors,      \* calls of malloc_error
    printed      \* the numbers main ends with

mainVars == <<setup, phase, file, mm_stats, errors, printed>>
vars == <<memVars, clientVars, rover, passVars, mainVars>>

num_tracefiles == Len(setup.num_ops)

Init ==
    /\ PassesInit
    /\ FcycInit
    /\ setup \in Setups
    /\ USE_FCYC = setup.fcyc
    /\ phase = "start"
    /\ file = 0
    /\ mm_stats = <<>>
    /\ errors = 0
    /\ printed = <<>>

(***************************************************************************)
(* The start of main                                                       *)
(***************************************************************************)
Options == {"a", "l", "h", "?"}      \* "?": an option getopt does not know

TeamFields == {"teamname", "name1", "id1", "name2", "id2", "name3", "id3"}

FirstMemberGiven(filled) == {"teamname", "name1", "id1"} \subseteq filled
AllOrNone(filled, name, id) == name \in filled <=> id \in filled

\* sanglim's driver knows a third member and insists on the second.
TeamAccepted(filled) ==
    /\ FirstMemberGiven(filled)
    /\ IF author = "sanglim"
       THEN {"name2", "id2"} \subseteq filled /\ AllOrNone(filled, "name3", "id3")
       ELSE AllOrNone(filled, "name2", "id2")

Start ==
    /\ phase = "start"
    /\ \E options \in SUBSET Options, filled \in SUBSET TeamFields :
          phase' = IF options \cap {"h", "?"} # {} THEN "exit"
                   ELSE IF "a" \notin options /\ ~TeamAccepted(filled) THEN "exit"
                   ELSE IF "l" \in options THEN "libc"
                   ELSE "mm"
    /\ UNCHANGED <<memVars, clientVars, rover, passVars, setup, file, mm_stats,
                   errors, printed>>

(***************************************************************************)
(* libc's malloc: a trace is valid, and is timed, or ends the program.     *)
(***************************************************************************)
eval_libc_valid ==
    /\ phase = "libc"
    /\ file < num_tracefiles
    /\ \/ file' = file + 1 /\ UNCHANGED <<phase, errors>>
       \/ errors' = errors + 1 /\ phase' = "exit" /\ UNCHANGED file
    /\ UNCHANGED <<memVars, clientVars, rover, passVars, setup, mm_stats, printed>>

LibcOver ==
    /\ phase = "libc"
    /\ file = num_tracefiles
    /\ phase' = "mm"
    /\ file' = 0
    /\ UNCHANGED <<memVars, clientVars, rover, passVars, setup, mm_stats, errors, printed>>

(***************************************************************************)
(* The package under test                                                  *)
(***************************************************************************)
\* Ids count from 1, indices from 0.  A FREE does not count.
MaxIndex(t) == Max({0} \cup {t[k].index - 1 : k \in {k \in DOMAIN t : t[k].type # "FREE"}})

\* The asserts of read_trace.  (A file with more requests than its header says
\* is written past the end of ops before they are evaluated.)
HeaderAgrees(t, header) ==
    /\ MaxIndex(t) = header.num_ids - 1
    /\ header.num_ops = Len(t)

Headers(len) == [num_ids : 1..(Max(Ids) + 1), num_ops : {len, len + 1}]

\* read_trace, then eval_mm_valid from its start.
read_trace ==
    /\ phase = "mm"
    /\ pass = "none"
    /\ file < num_tracefiles
    /\ \E t \in Traces(setup.num_ops[file + 1]), header \in Headers(setup.num_ops[file + 1]) :
          IF HeaderAgrees(t, header)
          THEN /\ Begin(t)
               /\ \/ pc = "init" /\ UNCHANGED <<memVars, clientVars>>
                  \/ NewTrace
               /\ UNCHANGED phase
          ELSE /\ phase' = "exit"
               /\ UNCHANGED <<memVars, clientVars, traceVars>>
    /\ UNCHANGED <<author, rover, fcycVars, setup, file, mm_stats, errors, printed>>

EvaluateFile == phase = "mm" /\ Evaluate /\ UNCHANGED mainVars

\* The record of calloc holds 0 where nothing was measured.
Stats ==
    [ops |-> NumOps, valid |-> pass = "measured",
     util |-> util, secs |-> IF pass = "measured" THEN fsecs ELSE 0]

\* Mutant: a rejected trace is not counted.
malloc_errorSilent == 0

malloc_error == IF pass = "rejected" THEN 1 ELSE 0

free_trace ==
    /\ phase = "mm"
    /\ pass \in {"rejected", "measured"}
    /\ mm_stats' = Append(mm_stats, Stats)
    /\ errors' = errors + malloc_error
    /\ file' = file + 1
    /\ FcycReturns
    /\ ops' = <<>>
    /\ i' = 0
    /\ pass' = "none"
    /\ total_size' = 0
    /\ max_total_size' = 0
    /\ util' = <<0, 0>>
    /\ placed' = <<>>
    /\ UNCHANGED <<memVars, clientVars, author, rover, setup, phase, printed>>

(***************************************************************************)
(* The end of main.  The index weighs the average of util with ops / secs; *)
(* it is 0 when there were errors.                                         *)
(***************************************************************************)
Report ==
    /\ phase = "mm"
    /\ pass = "none"
    /\ file = num_tracefiles
    /\ LET Ops(k) == mm_stats[k].ops
           Secs(k) == mm_stats[k].secs
           All == 1..num_tracefiles
       IN  printed' =
             [ops |-> MapThenSumSet(Ops, All), secs |-> MapThenSumSet(Secs, All),
              numcorrect |-> Cardinality({k \in All : mm_stats[k].valid}),
              perfindex |-> errors = 0]
    /\ phase' = "done"
    /\ UNCHANGED <<memVars, clientVars, rover, passVars, setup, file, mm_stats, errors>>

Next ==
    \/ Start
    \/ eval_libc_valid
    \/ LibcOver
    \/ read_trace
    \/ EvaluateFile
    \/ free_trace
    \/ Report

Spec == Init /\ [][Next]_vars

(***************************************************************************)
(* Properties                                                              *)
(***************************************************************************)
\* A performance index is printed exactly when every trace file was accepted
\* and measured, whatever was rejected before it; the numbers it is made of are
\* then those of all the files, each with a utilisation of at most 1.
ReportTrue ==
    phase = "done" =>
      /\ printed.perfindex <=> \A k \in 1..num_tracefiles : mm_stats[k].valid
      /\ printed.numcorrect + errors = num_tracefiles
      /\ \A k \in 1..num_tracefiles :
            IF mm_stats[k].valid
            THEN mm_stats[k].util[1] <= mm_stats[k].util[2] /\ mm_stats[k].secs > 0
            ELSE mm_stats[k].util = <<0, 0>> /\ mm_stats[k].secs = 0
=============================================================================
