------------------------------ MODULE VerifyScript ------------------------------
(***************************************************************************)
(* The verify script (verify.py.in): it runs SeaHorn on one job, reads the *)
(* lines of its output and turns them, with the exit code of the tool,     *)
(* into an exit code of its own.  Without --expect it becomes the tool.    *)
(***************************************************************************)
EXTENDS Integers

CONSTANTS
    Place,    \* the debug information of vacuity checks
    NONE

VARIABLES
    vac, expect,                      \* the options --vac and --expect
    found_expected, found_error,
    vacuity_passed, vacuity_failed,   \* places
    code                              \* the exit code, or NONE while it runs

options == <<vac, expect>>
vars    == <<options, found_expected, found_error, vacuity_passed, vacuity_failed, code>>

\* What a line of output is to the script.
Line == [kind : {"sat", "unsat", "assertion failed", "passed", "failed", "other"},
         at : Place]

Init ==
    /\ vac \in BOOLEAN
    /\ expect \in {"sat", "unsat", NONE}
    /\ found_expected = FALSE
    /\ found_error = FALSE
    /\ vacuity_passed = {}
    /\ vacuity_failed = {}
    /\ code = NONE

check_vacuity(line) ==
    /\ vacuity_passed' = vacuity_passed \cup (IF line.kind = "passed" THEN {line.at} ELSE {})
    /\ vacuity_failed' = vacuity_failed \cup (IF line.kind = "failed" THEN {line.at} ELSE {})

\* One pass of the loop: the three checks exclude each other.
ReadLine(line) ==
    /\ expect # NONE /\ code = NONE
    /\ LET expected  == ~ found_expected /\ line.kind = expect
           assertion == ~ expected /\ line.kind = "assertion failed"
       IN  /\ found_expected' = (found_expected \/ expected)
           /\ found_error' = (found_error \/ assertion)
           /\ IF expected \/ assertion THEN UNCHANGED <<vacuity_passed, vacuity_failed>>
              ELSE check_vacuity(line)
    /\ UNCHANGED <<options, code>>

\* The tool has ended with rcode.
Return(rcode) ==
    /\ expect # NONE /\ code = NONE
    /\ code' = IF vac /\ (found_error \/ ~ vacuity_failed \subseteq vacuity_passed) THEN 2
               ELSE IF rcode # 0 THEN rcode
               ELSE IF found_expected THEN 0 ELSE 1
    /\ UNCHANGED <<options, found_expected, found_error, vacuity_passed, vacuity_failed>>

\* os.execv: the exit code is the tool's.
Exec(rcode) ==
    /\ expect = NONE /\ code = NONE
    /\ code' = rcode
    /\ UNCHANGED <<options, found_expected, found_error, vacuity_passed, vacuity_failed>>

Next ==
    \/ \E line \in Line : ReadLine(line)
    \/ \E rcode \in 0..3 : Return(rcode) \/ Exec(rcode)

Spec == Init /\ [][Next]_vars

-------------------------------------------------------------------------------
(* What the repository says of the script and it does not do.              *)

\* "0 - all ok", "2 - error reported to stderr" (verify.py.in): when the tool has
\* reported a failed assertion, the script does not return 0.
ErrorIsNot0 == code = 0 => ~ found_error

===============================================================================
