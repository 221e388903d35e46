------------------------------ MODULE Options ------------------------------
(***************************************************************************)
(* exec_sql.def and sql_set.c: the options that SET keeps for every        *)
(* statement, the switches of one exec_sql command, and CGI mode, which    *)
(* either of them turns on and which reads what the browser sent (Uncgi).  *)
(*                                                                         *)
(* Of the options there is one of each kind: OPTION_HTML is OFF, and       *)
(* copied whatever its value; OPTION_HEADER is ON, and its switch turns it *)
(* off; OPTION_SEPARATOR is a string, and not set when it is empty.        *)
(***************************************************************************)
EXTENDS Uncgi

CONSTANTS Separators,     \* what OPTION_SEPARATOR and -S may be
          MaxCalls,       \* bound: calls of uncgi
          Interactive     \* exec_sql has its SIGINT handler while it runs

Empty == "empty"        \* the string ""

ASSUME OptionsAssumption == Empty \notin Separators /\ MaxCalls \in Nat

OnOff == {"OPTION_HTML", "OPTION_HEADER"}
SEP == "OPTION_SEPARATOR"
Options == OnOff \cup {SEP}

(* A set of options, as a record: switched on, switched on, string. *)
Default == [OPTION_HTML |-> FALSE, OPTION_HEADER |-> TRUE, OPTION_SEPARATOR |-> Empty]
Values(o) == IF o = SEP THEN Separators \cup {Empty} ELSE BOOLEAN

VARIABLES
    saved,         \* exec_sql_option without cgi_mode
    cgi_mode,      \* exec_sql_option.cgi_mode
    shown,         \* the OPTION_ shell variables
    CGI_MODE,      \* -1, 0, 1
    Content_type,  \* -1, 1; CGI_BR and Ferr are set with it
    option,        \* the flags of this command
    pc,
    printed,       \* the form of the table this command printed
    calls,         \* of uncgi
    asked,         \* ghost: the options as the guide has it
    once           \* ghost: the switches of this command

ovars == <<saved, cgi_mode, shown, CGI_MODE, Content_type, option, pc, printed, calls, asked, once>>
vars  == <<uvars, ovars>>
kept  == <<saved, cgi_mode, shown, asked>>
mode  == <<CGI_MODE, Content_type>>

NoFlags == [iflg |-> FALSE, Hflg |-> FALSE, Tflg |-> FALSE, Sflg |-> Empty]
NoForm == [html |-> FALSE, header |-> FALSE, sep |-> Empty]

Init ==
    /\ UncgiInit
    /\ saved = Default /\ shown = Default /\ asked = Default
    /\ cgi_mode = 0 /\ CGI_MODE = -1 /\ Content_type = -1
    /\ option = NoFlags /\ once = NoFlags
    /\ pc = "shell" /\ printed = NoForm /\ calls = 0
-----------------------------------------------------------------------------
MutCopied ==      \* OPTION_HTML first, and then CGI mode
    [iflg |-> cgi_mode = 1, Hflg |-> cgi_mode = 1,
     Tflg |-> ~saved.OPTION_HEADER, Sflg |-> saved.OPTION_SEPARATOR]
(* copy_exec_sql_options: what CGI mode sets Hflg to is overwritten. *)
Copied ==
    [iflg |-> cgi_mode = 1, Hflg |-> saved.OPTION_HTML,
     Tflg |-> ~saved.OPTION_HEADER, Sflg |-> saved.OPTION_SEPARATOR]

MutModeNow == IF CGI_MODE = -1 THEN 0 ELSE CGI_MODE      \* CGI mode is never left
ModeNow == IF CGI_MODE = -1 \/ (CGI_MODE = 1 /\ cgi_mode = 0) THEN 0 ELSE CGI_MODE

Begin ==
    /\ pc = "shell"
    /\ option' = Copied
    /\ IF ModeNow = 0 /\ cgi_mode = 1
       THEN CGI_MODE' = 1 /\ Content_type' = 1
       ELSE /\ CGI_MODE' = ModeNow
            /\ Content_type' = IF ModeNow # CGI_MODE THEN -1 ELSE Content_type
    /\ pc' = "switches" /\ printed' = NoForm /\ once' = NoFlags
    /\ UNCHANGED <<uvars, kept, calls>>

(* -H, -T and -S; the others are of one of these kinds. *)
Switch ==
    /\ pc = "switches"
    /\ \/ option' = [option EXCEPT !.Hflg = TRUE] /\ once' = [once EXCEPT !.Hflg = TRUE]
       \/ option' = [option EXCEPT !.Tflg = TRUE] /\ once' = [once EXCEPT !.Tflg = TRUE]
       \/ \E sep \in Separators :
             /\ option' = [option EXCEPT !.Sflg = sep] /\ once' = [once EXCEPT !.Sflg = sep]
    /\ UNCHANGED <<uvars, kept, mode, pc, printed, calls>>

(* -i; in CGI mode it does nothing. *)
SwitchCgi ==
    /\ pc = "switches"
    /\ CGI_MODE = 0 /\ calls < MaxCalls
    /\ option' = [option EXCEPT !.iflg = TRUE]
    /\ cgi_mode' = 1 /\ CGI_MODE' = 1 /\ Content_type' = 1
    /\ calls' = calls + 1 /\ Uncgi /\ pc' = "uncgi -i"
    /\ UNCHANGED <<saved, shown, asked, printed, once>>

Ends == pc' = "shell" /\ printed' = NoForm /\ UNCHANGED <<option, once, calls>>

(* An argument too long, an unknown switch, or no query where one must be. *)
Refuse ==
    /\ pc = "switches" /\ Ends
    /\ UNCHANGED <<uvars, kept, mode>>

(* exec_sql_main begins, with or without a query. *)
NoMoreSwitches ==
    /\ pc = "switches" /\ pc' = "main"
    /\ UNCHANGED <<uvars, kept, mode, option, printed, calls, once>>

(* Help, version, status, the list of connections, a SET that is refused,   *)
(* statements without a table, and no statement at all.                     *)
PrintsNothing ==
    /\ pc = "main" /\ Ends
    /\ UNCHANGED <<uvars, kept, mode>>

(* SET EXEC_SQL_OPTION DEFAULT *)
ExecSetDefault ==
    /\ pc = "main"
    /\ saved' = Default /\ shown' = Default /\ asked' = Default
    /\ cgi_mode' = 0 /\ Ends
    /\ UNCHANGED <<uvars, mode>>

(* SET EXEC_SQL_OPTION CGI *)
ExecSetCgi ==
    /\ pc = "main" /\ calls < MaxCalls
    /\ cgi_mode' = 1
    /\ saved' = [saved EXCEPT !.OPTION_HTML = TRUE]
    /\ shown' = [shown EXCEPT !.OPTION_HTML = TRUE]
    /\ asked' = [asked EXCEPT !.OPTION_HTML = TRUE]
    /\ calls' = calls + 1 /\ Uncgi /\ pc' = "uncgi"
    /\ UNCHANGED <<mode, option, printed, once>>

MutShow(o, value) == shown          \* the struct alone
Show(o, value) == [shown EXCEPT ![o] = value]

(* SET OPTION_xxx[=value]: without a value ON, or empty for a string.*)
ExecSetOption(o, value) ==
    /\ pc = "main"
    /\ saved' = [saved EXCEPT ![o] = value]
    /\ asked' = [asked EXCEPT ![o] = value]
    /\ shown' = Show(o, value)
    /\ Ends
    /\ UNCHANGED <<uvars, cgi_mode, mode>>

(* A table, as initPSconnSet took its form from the flags. *)
PrintTable ==
    /\ pc = "main" /\ pc' = "printed"
    /\ printed' = [html |-> option.Hflg, header |-> ~option.Tflg, sep |-> option.Sflg]
    /\ UNCHANGED <<uvars, kept, mode, option, calls, once>>

Return ==
    /\ pc = "printed" /\ Ends
    /\ UNCHANGED <<uvars, kept, mode>>

(* uncgi, called from exec_sql_builtin or from set_exec_sql_options. *)
Reads == UncgiStep /\ UNCHANGED ovars

HasRead ==
    /\ source = "none"
    /\ \/ pc = "uncgi -i" /\ pc' = "switches" /\ UNCHANGED <<option, printed, calls, once>>
       \/ pc = "uncgi" /\ Ends
    /\ UNCHANGED <<uvars, kept, mode>>

Interrupt ==
    /\ Interactive /\ pc = "uncgi" /\ UncgiBroken
    /\ Ends
    /\ UNCHANGED <<kept, mode>>

Next ==
    \/ Begin \/ Switch \/ SwitchCgi \/ Refuse \/ NoMoreSwitches
    \/ PrintsNothing \/ ExecSetDefault \/ ExecSetCgi
    \/ \E o \in Options : \E value \in Values(o) : ExecSetOption(o, value)
    \/ PrintTable \/ Return
    \/ Reads \/ HasRead \/ Interrupt

Spec == Init /\ [][Next]_vars
-----------------------------------------------------------------------------
Flags == [iflg : BOOLEAN, Hflg : BOOLEAN, Tflg : BOOLEAN, Sflg : Separators \cup {Empty}]
Sets == [OPTION_HTML : BOOLEAN, OPTION_HEADER : BOOLEAN, OPTION_SEPARATOR : Separators \cup {Empty}]

TypeOK ==
    /\ saved \in Sets /\ shown \in Sets /\ asked \in Sets
    /\ cgi_mode \in {0, 1} /\ CGI_MODE \in {-1, 0, 1} /\ Content_type \in {-1, 1}
    /\ option \in Flags /\ once \in Flags
    /\ pc \in {"shell", "switches", "uncgi -i", "main", "uncgi", "printed"}
    /\ printed \in [html : BOOLEAN, header : BOOLEAN, sep : Separators \cup {Empty}]
    /\ calls \in Nat
-----------------------------------------------------------------------------
(* HTML if OPTION_HTML or -H ask for it.  In CGI mode nothing is said of a *)
(* command that has neither: the help has -H as the default there          *)
(* (exec_sql.def 37), the code overwrites what CGI mode sets.              *)
HtmlAsTold(html, told) == (told => html) /\ (html => told \/ cgi_mode = 1)

(* The table a command prints has the form that the SETs so far ask for,   *)
(* with the switches of that command, and of no other, on top of it: the   *)
(* guide's permanent and temporary options (copy_exec_sql_options,         *)
(* initPSconnSet).  HTML without being asked is left to CGI mode.          *)
PrintsAsTold ==
    pc = "printed" =>
        /\ HtmlAsTold(printed.html, asked.OPTION_HTML \/ once.Hflg)
        /\ printed.header = (asked.OPTION_HEADER /\ ~once.Tflg)
        /\ printed.sep = (IF once.Sflg # Empty THEN once.Sflg ELSE asked.OPTION_SEPARATOR)

(* The OPTION_ variables show what is kept, whichever way it got there     *)
(* (set_exec_sql_options).                                                 *)
OptionsAreShown == shown = saved

(* From its first switch on, a command reports its errors as CGI mode has  *)
(* it at that time: the three places where CGI mode is kept agree, whether *)
(* SET, -i or DEFAULT changed it (exec_sql_builtin).                       *)
ErrorsWhereTold ==
    pc \in {"switches", "uncgi -i"} => Content_type = IF cgi_mode = 1 THEN 1 ELSE -1

-----------------------------------------------------------------------------
(* The inductive invariant: until the statement is known, the flags are     *)
(* what is kept with the switches on top of it.                             *)
FlagsOK ==
    pc \in {"switches", "uncgi -i", "main", "printed"} =>
        /\ HtmlAsTold(option.Hflg, saved.OPTION_HTML \/ once.Hflg)
        /\ option.Tflg = (~saved.OPTION_HEADER \/ once.Tflg)
        /\ option.Sflg = (IF once.Sflg # Empty THEN once.Sflg ELSE saved.OPTION_SEPARATOR)

ModeOK ==
    /\ Content_type = IF CGI_MODE = 1 THEN 1 ELSE -1
    /\ pc \in {"switches", "uncgi -i"} => CGI_MODE = cgi_mode

ReadingOK == source # "none" => pc \in {"uncgi -i", "uncgi"}

OInv ==
    /\ UInv
    /\ TypeOK
    /\ FlagsOK
    /\ ModeOK
    /\ ReadingOK
    /\ asked = saved
    /\ OptionsAreShown
    /\ PrintsAsTold
    /\ ErrorsWhereTold
=============================================================================
