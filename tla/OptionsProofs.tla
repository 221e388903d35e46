--------------------------- MODULE OptionsProofs ---------------------------
(***************************************************************************)
(* Options and CGI mode, for every request and every size of the table.    *)
(*                                                                         *)
(* UInv is preserved by the steps of uncgi, and OInv is inductive: a step  *)
(* of a command either leaves uncgi alone or calls it, and then nothing    *)
(* but the mode and OPTION_HTML change.                                    *)
(***************************************************************************)
EXTENDS Options, UncgiProofs

USE OptionsAssumption

-----------------------------------------------------------------------------
(* A command that leaves uncgi alone while it is not running. *)
LEMMA Resting ==
    ASSUME OInv, UNCHANGED uvars PROVE UInv' /\ (source = "none" => ReadingOK')
BY UncgiUnchanged DEF OInv, uvars, ReadingOK

Rest == FlagsOK /\ ModeOK /\ asked = saved /\ OptionsAreShown /\ PrintsAsTold /\ ErrorsWhereTold

LEMMA OptionsInitOK == Init => OInv
<1> SUFFICES ASSUME Init PROVE OInv
  OBVIOUS
<1>1. UInv /\ source = "none"
  BY UncgiInitOK DEF Init
<1>2. TypeOK
  <2>1. Default \in Sets /\ NoFlags \in Flags
        /\ NoForm \in [html : BOOLEAN, header : BOOLEAN, sep : Separators \cup {Empty}]
    BY DEF Default, Sets, NoFlags, Flags, NoForm
  <2> QED BY <2>1 DEF Init, TypeOK
<1>3. Rest
  BY DEF Init, Rest, FlagsOK, HtmlAsTold, ModeOK, OptionsAreShown, PrintsAsTold, ErrorsWhereTold
<1> QED BY <1>1, <1>2, <1>3 DEF OInv, ReadingOK, Rest

LEMMA BeginOK == OInv /\ Begin => OInv'
<1> SUFFICES ASSUME OInv, Begin PROVE OInv'
  OBVIOUS
<1>1. /\ pc = "shell" /\ pc' = "switches" /\ option' = Copied /\ once' = NoFlags /\ printed' = NoForm
      /\ UNCHANGED <<saved, cgi_mode, shown, asked, calls>> /\ UNCHANGED uvars
  BY DEF Begin, kept
<1>2. TypeOK
  BY DEF OInv
<1>3. Copied \in Flags /\ NoFlags \in Flags
      /\ NoForm \in [html : BOOLEAN, header : BOOLEAN, sep : Separators \cup {Empty}]
  BY <1>2 DEF TypeOK, Copied, NoFlags, Flags, NoForm, Sets
<1>4. /\ CGI_MODE' = cgi_mode /\ Content_type' = IF cgi_mode = 1 THEN 1 ELSE -1
      /\ cgi_mode \in {0, 1}
  BY DEF Begin, ModeNow, OInv, ModeOK, TypeOK
<1>5. TypeOK'
  BY <1>1, <1>2, <1>3, <1>4 DEF TypeOK
<1>6. FlagsOK'
  <2>1. saved.OPTION_HTML \in BOOLEAN /\ saved.OPTION_HEADER \in BOOLEAN
    BY <1>2 DEF TypeOK, Sets
  <2> QED BY <1>1, <2>1 DEF FlagsOK, HtmlAsTold, Copied, NoFlags
<1>7. ModeOK' /\ ErrorsWhereTold'
  BY <1>1, <1>4 DEF ModeOK, ErrorsWhereTold
<1>8. UInv' /\ ReadingOK'
  BY <1>1, Resting DEF OInv, ReadingOK
<1> QED BY <1>1, <1>5, <1>6, <1>7, <1>8 DEF OInv, OptionsAreShown, PrintsAsTold, HtmlAsTold

(* What every step has to show of the types, one variable at a time. *)
Form == [html : BOOLEAN, header : BOOLEAN, sep : Separators \cup {Empty}]

LEMMA TypeFromParts ==
    ASSUME saved' \in Sets, shown' \in Sets, asked' \in Sets,
           cgi_mode' \in {0, 1}, CGI_MODE' \in {-1, 0, 1}, Content_type' \in {-1, 1},
           option' \in Flags, once' \in Flags,
           pc' \in {"shell", "switches", "uncgi -i", "main", "uncgi", "printed"},
           printed' \in Form, calls' \in Nat
    PROVE  TypeOK'
BY DEF TypeOK, Form

LEMMA SwitchOK == OInv /\ Switch => OInv'
<1> SUFFICES ASSUME OInv, Switch PROVE OInv'
  OBVIOUS
<1>1. /\ pc = "switches" /\ UNCHANGED <<pc, saved, cgi_mode, shown, asked, CGI_MODE, Content_type, printed, calls>>
      /\ UNCHANGED uvars
  BY DEF Switch, kept, mode
<1>2. option \in Flags /\ once \in Flags /\ FlagsOK /\ TypeOK
  BY DEF OInv, TypeOK
<1>3. option' \in Flags /\ once' \in Flags /\ FlagsOK'
  <2>1. CASE option' = [option EXCEPT !.Hflg = TRUE] /\ once' = [once EXCEPT !.Hflg = TRUE]
    <3>1. option' \in Flags /\ once' \in Flags
      BY <1>2, <2>1 DEF Flags
    <3>2. FlagsOK'
      BY <1>1, <1>2, <2>1 DEF Flags, FlagsOK, HtmlAsTold
    <3> QED BY <3>1, <3>2
  <2>2. CASE option' = [option EXCEPT !.Tflg = TRUE] /\ once' = [once EXCEPT !.Tflg = TRUE]
    <3>1. option' \in Flags /\ once' \in Flags
      BY <1>2, <2>2 DEF Flags
    <3>2. FlagsOK'
      BY <1>1, <1>2, <2>2 DEF Flags, FlagsOK, HtmlAsTold
    <3> QED BY <3>1, <3>2
  <2>3. ASSUME NEW sep \in Separators, option' = [option EXCEPT !.Sflg = sep], once' = [once EXCEPT !.Sflg = sep]
        PROVE  option' \in Flags /\ once' \in Flags /\ FlagsOK'
    <3>1. sep # Empty
      BY OptionsAssumption
    <3>2. option' \in Flags /\ once' \in Flags
      BY <1>2, <2>3 DEF Flags
    <3>3. FlagsOK'
      BY <1>1, <1>2, <2>3, <3>1 DEF Flags, FlagsOK, HtmlAsTold
    <3> QED BY <3>2, <3>3
  <2> QED BY <2>1, <2>2, <2>3 DEF Switch
<1>4. UInv' /\ ReadingOK'
  BY <1>1, Resting DEF OInv, ReadingOK
<1>5. TypeOK'
  BY <1>1, <1>2, <1>3 DEF TypeOK
<1> QED BY <1>1, <1>3, <1>4, <1>5 DEF OInv, ModeOK, ErrorsWhereTold, OptionsAreShown, PrintsAsTold, HtmlAsTold

LEMMA SwitchCgiOK == OInv /\ SwitchCgi => OInv'
<1> SUFFICES ASSUME OInv, SwitchCgi PROVE OInv'
  OBVIOUS
<1>1. /\ pc = "switches" /\ pc' = "uncgi -i" /\ option' = [option EXCEPT !.iflg = TRUE]
      /\ cgi_mode' = 1 /\ CGI_MODE' = 1 /\ Content_type' = 1 /\ calls' = calls + 1
      /\ UNCHANGED <<saved, shown, asked, printed, once>>
  BY DEF SwitchCgi
<1>2. UInv' /\ ReadingOK'
  BY <1>1, UncgiOK DEF OInv, SwitchCgi, ReadingOK
<1>3. option' \in Flags /\ FlagsOK'
  BY <1>1 DEF OInv, TypeOK, Flags, FlagsOK, HtmlAsTold
<1>4. TypeOK'
  <2>1. saved' \in Sets /\ shown' \in Sets /\ asked' \in Sets /\ once' \in Flags /\ printed' \in Form
    BY <1>1 DEF OInv, TypeOK, Form
  <2>2. calls' \in Nat
    <3>1. calls \in Nat
      BY DEF OInv, TypeOK
    <3>2. calls' = calls + 1
      BY <1>1
    <3> QED BY <3>1, <3>2
  <2> QED BY <1>1, <1>3, <2>1, <2>2, TypeFromParts
<1> QED BY <1>1, <1>2, <1>3, <1>4 DEF OInv, ModeOK, ErrorsWhereTold, OptionsAreShown, PrintsAsTold, HtmlAsTold

(* The ends of a command; what SET does comes before them. *)
LEMMA EndsOK ==
    ASSUME OInv, Ends, UInv', source' = "none", UNCHANGED mode,
           saved' \in Sets, shown' = saved', asked' = saved', cgi_mode' \in {0, 1}
    PROVE  OInv'
<1>1. /\ pc' = "shell" /\ printed' = NoForm
      /\ UNCHANGED <<option, once, calls, CGI_MODE, Content_type>>
  BY DEF Ends, mode
<1>2. NoForm \in [html : BOOLEAN, header : BOOLEAN, sep : Separators \cup {Empty}]
  BY DEF NoForm
<1>3. TypeOK'
  BY <1>1, <1>2 DEF OInv, TypeOK
<1> QED
  BY <1>1, <1>3 DEF OInv, FlagsOK, HtmlAsTold, ModeOK, ReadingOK, OptionsAreShown, PrintsAsTold, ErrorsWhereTold

LEMMA EndingsOK ==
    ASSUME OInv, \/ Refuse \/ PrintsNothing \/ Return \/ ExecSetDefault
                 \/ \E o \in Options : \E value \in Values(o) : ExecSetOption(o, value)
    PROVE  OInv'
<1>1. Ends /\ UNCHANGED mode /\ UNCHANGED uvars /\ pc \in {"switches", "main", "printed"}
  BY DEF Refuse, PrintsNothing, Return, ExecSetDefault, ExecSetOption
<1>2. UInv' /\ source' = "none"
  BY <1>1, UncgiUnchanged DEF OInv, ReadingOK, uvars
<1>3. saved \in Sets /\ shown = saved /\ asked = saved /\ cgi_mode \in {0, 1}
  BY DEF OInv, TypeOK, OptionsAreShown
<1>4. saved' \in Sets /\ shown' = saved' /\ asked' = saved' /\ cgi_mode' \in {0, 1}
  <2>1. CASE Refuse \/ PrintsNothing \/ Return
    BY <1>3, <2>1 DEF Refuse, PrintsNothing, Return, kept
  <2>2. CASE ExecSetDefault
    BY <2>2 DEF ExecSetDefault, Default, Sets
  <2>3. ASSUME NEW o \in Options, NEW value \in Values(o), ExecSetOption(o, value)
        PROVE  saved' \in Sets /\ shown' = saved' /\ asked' = saved' /\ cgi_mode' \in {0, 1}
    <3>1. [saved EXCEPT ![o] = value] \in Sets
      BY <1>3 DEF Options, OnOff, SEP, Values, Sets
    <3> QED BY <1>3, <2>3, <3>1 DEF ExecSetOption, Show
  <2> QED BY <2>1, <2>2, <2>3
<1> QED BY <1>1, <1>2, <1>4, EndsOK

LEMMA MainOK == OInv /\ (NoMoreSwitches \/ PrintTable) => OInv'
<1> SUFFICES ASSUME OInv, NoMoreSwitches \/ PrintTable PROVE OInv'
  OBVIOUS
<1>1. /\ UNCHANGED <<saved, cgi_mode, shown, asked, CGI_MODE, Content_type, option, calls, once>>
      /\ UNCHANGED uvars /\ pc' \in {"main", "printed"} /\ pc \in {"switches", "main"}
  BY DEF NoMoreSwitches, PrintTable, kept, mode
<1>2. UInv' /\ ReadingOK'
  BY <1>1, Resting DEF OInv, ReadingOK
<1>3. option \in Flags /\ once \in Flags /\ saved \in Sets /\ FlagsOK
  BY DEF OInv, TypeOK
<1>4. printed' \in [html : BOOLEAN, header : BOOLEAN, sep : Separators \cup {Empty}]
  <2>1. CASE NoMoreSwitches
    BY <2>1 DEF NoMoreSwitches, OInv, TypeOK
  <2>2. CASE PrintTable
    <3>1. option.Hflg \in BOOLEAN /\ option.Tflg \in BOOLEAN /\ option.Sflg \in Separators \cup {Empty}
      BY <1>3 DEF Flags
    <3>2. (~option.Tflg) \in BOOLEAN
      BY <3>1
    <3> QED BY <2>2, <3>1, <3>2, Zenon DEF PrintTable
  <2> QED BY <2>1, <2>2
<1>5. PrintsAsTold'
  <2>1. CASE NoMoreSwitches
    BY <2>1 DEF NoMoreSwitches, PrintsAsTold, HtmlAsTold
  <2>2. CASE PrintTable
    BY <1>1, <1>3, <2>2 DEF PrintTable, PrintsAsTold, HtmlAsTold, FlagsOK, Flags, Sets, OInv
  <2> QED BY <2>1, <2>2
<1>6. TypeOK' /\ FlagsOK'
  BY <1>1, <1>4 DEF OInv, TypeOK, FlagsOK, HtmlAsTold
<1> QED BY <1>1, <1>2, <1>5, <1>6 DEF OInv, ModeOK, ErrorsWhereTold, OptionsAreShown

LEMMA ExecSetCgiOK == OInv /\ ExecSetCgi => OInv'
<1> SUFFICES ASSUME OInv, ExecSetCgi PROVE OInv'
  OBVIOUS
<1>1. /\ pc' = "uncgi" /\ cgi_mode' = 1 /\ calls' = calls + 1
      /\ UNCHANGED <<CGI_MODE, Content_type, option, printed, once>>
  BY DEF ExecSetCgi, mode
<1>2. UInv' /\ ReadingOK'
  BY <1>1, UncgiOK DEF OInv, ExecSetCgi, ReadingOK
<1>3. saved' \in Sets /\ shown' = saved' /\ asked' = saved'
  BY DEF ExecSetCgi, OInv, TypeOK, Sets, OptionsAreShown
<1>4. TypeOK'
  <2>1. option' \in Flags /\ once' \in Flags /\ printed' \in Form
    BY <1>1 DEF OInv, TypeOK, Form
  <2>2. CGI_MODE' \in {-1, 0, 1} /\ Content_type' \in {-1, 1}
    BY <1>1 DEF OInv, TypeOK
  <2>3. calls' \in Nat
    <3>1. calls \in Nat
      BY DEF OInv, TypeOK
    <3>2. calls' = calls + 1
      BY <1>1
    <3> QED BY <3>1, <3>2
  <2> QED BY <1>1, <1>3, <2>1, <2>2, <2>3, TypeFromParts
<1> QED
  BY <1>1, <1>2, <1>3, <1>4 DEF OInv, FlagsOK, HtmlAsTold, ModeOK, ErrorsWhereTold, OptionsAreShown, PrintsAsTold

(* A step that changes nothing but what uncgi reads into. *)
LEMMA OptionsUnchanged ==
    ASSUME OInv, UNCHANGED ovars, UInv', ReadingOK' PROVE OInv'
<1>1. TypeOK'
  BY DEF OInv, ovars, TypeOK
<1>2. FlagsOK' /\ ModeOK'
  BY DEF OInv, ovars, FlagsOK, HtmlAsTold, ModeOK
<1>3. asked' = saved' /\ OptionsAreShown' /\ PrintsAsTold' /\ ErrorsWhereTold'
  BY DEF OInv, ovars, OptionsAreShown, PrintsAsTold, HtmlAsTold, ErrorsWhereTold
<1> QED BY <1>1, <1>2, <1>3 DEF OInv

LEMMA ReadsOK == OInv /\ (Reads \/ HasRead \/ Interrupt) => OInv'
<1> SUFFICES ASSUME OInv, Reads \/ HasRead \/ Interrupt PROVE OInv'
  OBVIOUS
<1>1. saved \in Sets /\ shown = saved /\ asked = saved /\ cgi_mode \in {0, 1}
  BY DEF OInv, TypeOK, OptionsAreShown
<1>2. CASE Reads
  <2>1. UInv'
    BY <1>2, FieldOK, CookieOK, ScanOK, UncgiEndOK DEF Reads, UncgiStep, OInv
  <2>2. source # "none" /\ UNCHANGED ovars
    BY <1>2 DEF Reads, UncgiStep, Field, Cookie, ScanPost, ScanCookie, UncgiReturns
  <2>3. ReadingOK'
    BY <2>2 DEF OInv, ReadingOK, ovars
  <2> QED BY <2>1, <2>2, <2>3, OptionsUnchanged
<1>3. CASE HasRead /\ pc = "uncgi -i"
  <2>1. /\ pc' = "switches" /\ source = "none" /\ UNCHANGED uvars
        /\ UNCHANGED <<saved, cgi_mode, shown, asked, CGI_MODE, Content_type, option, printed, calls, once>>
    BY <1>3 DEF HasRead, kept, mode
  <2>2. UInv' /\ ReadingOK'
    BY <2>1, Resting
  <2> QED
    BY <1>3, <2>1, <2>2 DEF OInv, TypeOK, FlagsOK, HtmlAsTold, ModeOK, ErrorsWhereTold, OptionsAreShown, PrintsAsTold
<1>4. CASE HasRead /\ pc = "uncgi"
  <2>1. Ends /\ UNCHANGED mode /\ UNCHANGED uvars /\ source = "none" /\ UNCHANGED kept
    BY <1>4 DEF HasRead
  <2>2. UInv' /\ source' = "none"
    BY <2>1, UncgiUnchanged DEF OInv, uvars
  <2> QED BY <1>1, <2>1, <2>2, EndsOK DEF kept
<1>5. CASE Interrupt
  <2>1. Ends /\ UNCHANGED mode /\ UncgiBroken /\ UNCHANGED kept
    BY <1>5 DEF Interrupt
  <2>2. UInv' /\ source' = "none"
    BY <2>1, UncgiEndOK DEF OInv, UncgiBroken
  <2> QED BY <1>1, <2>1, <2>2, EndsOK DEF kept
<1> QED BY <1>2, <1>3, <1>4, <1>5 DEF HasRead

(* OInv holds always: options, switches and CGI mode in any order. *)
THEOREM OptionsInvariance == Spec => []OInv
<1>1. OInv /\ [Next]_vars => OInv'
  <2> SUFFICES ASSUME OInv, [Next]_vars PROVE OInv'
    OBVIOUS
  <2>1. CASE UNCHANGED vars
    <3>1. UNCHANGED uvars /\ UNCHANGED ovars
      BY <2>1 DEF vars
    <3>2. UInv'
      BY <3>1, UncgiUnchanged DEF OInv
    <3>3. ReadingOK'
      BY <3>1 DEF uvars, ovars, OInv, ReadingOK
    <3> QED BY <3>1, <3>2, <3>3, OptionsUnchanged
  <2> QED
    BY <2>1, BeginOK, SwitchOK, SwitchCgiOK, EndingsOK, MainOK, ExecSetCgiOK, ReadsOK DEF Next
<1> QED BY <1>1, OptionsInitOK, PTL DEF Spec

(* A table is printed in the form that SET and the switches ask for; CGI    *)
(* mode alone may make it HTML.                                             *)
THEOREM FormIsTold == Spec => []PrintsAsTold
BY OptionsInvariance, PTL DEF OInv

(* The OPTION_ variables show the options. *)
THEOREM OptionsShow == Spec => []OptionsAreShown
BY OptionsInvariance, PTL DEF OInv

(* The places that keep CGI mode agree when errors may be told. *)
THEOREM ModesAgree == Spec => []ErrorsWhereTold
BY OptionsInvariance, PTL DEF OInv

(* The name table is never overfull, and is empty between calls. *)
THEOREM TableHasRoom == Spec => []TableIsEmptied
BY OptionsInvariance, PTL DEF OInv, UInv

(* The first call keeps every word that a form sends, in its order, as      *)
(* long as the name table has room: whatever names, fields and size.        *)
THEOREM FieldsKept == Spec => []FieldsAreKept
BY OptionsInvariance, PTL DEF OInv, UInv

(* Keys and values of the cookies are kept, and counted.                    *)
THEOREM CookiesKept == Spec => []CookiesAreKept
BY OptionsInvariance, PTL DEF OInv, UInv
=============================================================================
