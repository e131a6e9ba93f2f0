----------------------------- MODULE UkipoForm -----------------------------
(***************************************************************************)
(* The application form of the UK IPO as the Playwright robot of           *)
(* app/services/ukipo/robot.py drives it.  The form is a service of        *)
(* others: it is at a page, numbered by the steps it has accepted, and     *)
(* moves on only when it accepts what was entered.  A step of the robot    *)
(* looks for its control and raises when it is not there; it enters its    *)
(* data and clicks Continue; it raises again when it reads an error        *)
(* summary.  A summary it fails to read, the text of the body not arriving *)
(* in time, goes unnoticed, and the form stays where it was.               *)
(*                                                                         *)
(* A step is the set of its outcomes from a page: pages, and Raise.  No    *)
(* control is on Raise, so whatever follows an exception raises as well.   *)
(***************************************************************************)
EXTENDS Naturals

CONSTANT CheckboxPages  \* pages that show a checkbox the fallback of step 9 may tick

ASSUME CheckboxAssumption == CheckboxPages \subseteq 0..13

Steps == 1..14
Pages == 0..14
Raise == 15   \* not a page

\* A page on which the robot enters data, clicks Continue and looks for the
\* error summary: accepted, refused without its noticing, or an exception.
_check_validation_errors(here, page) ==
  IF page = here THEN {here + 1, here, Raise} ELSE {Raise}

\* A value is read back once it is typed, and filled in directly if it is not there;
\* only when that does not stick either does the step end.
_real_type(here) == {here, Raise}

\* A value that resembles none of the options ends the step.
_select_with_change(here) == {here, Raise}

\* Fields are looked for by their names, then by their labels, and used if they show.
_fill_named(here, page) == IF page = here THEN _real_type(here) ELSE {Raise}

_fill_by_label_or_name(here, page) == IF page = here THEN _real_type(here) ELSE {Raise}

_select_field_by_label(here, page) ==
  IF page = here THEN _select_with_change(here) ELSE {Raise}

\* Neither a missing "Start now" nor a challenge that does not clear raises.
_step_open_form(page) == {1, 0, Raise}

_step_choose_representative_role(page) == _check_validation_errors(1, page)

\* Type and country are chosen, name, address and contacts filled in.
_step_fill_representative_details(page) ==
  LET chosen == _select_field_by_label(2, page)
      filled == UNION {_fill_by_label_or_name(2, p) : p \in chosen}
  IN UNION {_check_validation_errors(2, p) : p \in filled}

\* The owner's type decides which field the name goes to; any field whose name looks
\* like it will do, and none ends the step.
OwnerNamed(page) == UNION {_fill_named(3, p) : p \in _select_field_by_label(3, page)}

\* Country and address follow; all of it is entered again after the address lookup.
_step_fill_owner_details(page) ==
  LET chosen == UNION {_select_field_by_label(3, p) : p \in OwnerNamed(page)}
      filled == UNION {_fill_named(3, p) : p \in chosen}
  IN UNION {_check_validation_errors(3, p) : p \in filled}

\* Words are typed in, an image is handed to the file input.
_step_choose_mark_type(page) ==
  UNION {_check_validation_errors(4, p) : p \in _fill_by_label_or_name(4, page)}

_step_single_trade_mark(page) == _check_validation_errors(5, page)

\* A click with no check after it.
_step_select_class_manually(page) == _check_validation_errors(6, page)

\* A class is chosen and its description typed; more classes are the same page again.
_step_enter_nice_classes(page) ==
  LET chosen == _select_field_by_label(7, page)
      filled == UNION {_fill_named(7, p) : p \in chosen}
  IN UNION {_check_validation_errors(7, p) : p \in filled}

\* Without the declaration of use, any visible checkbox is ticked and the
\* page it is on continued.
_step_confirm_bottom_option(page) ==
  IF page \in {8} \cup CheckboxPages
    THEN {page, page + 1, Raise} ELSE {Raise}

\* Three pages; a question left behind unnoticed is answered once more, and
\* the last one is then still open.
_step_answer_no_questions(page) == _check_validation_errors(9, page)

_step_choose_standard_mark(page) == _check_validation_errors(10, page)

_step_choose_examination_type(page) == _check_validation_errors(11, page)

\* No Continue here: boxes and name are filled in, the page stays.
_step_declaration(page) == IF page = 12 THEN {13, Raise} ELSE {Raise}

\* Where "Pay for and submit" leads is looked at, and only logged.
_step_reach_payment_screen(page) == _check_validation_errors(13, page)

StepOutcomes(k, page) ==
  CASE k = 1 -> _step_open_form(page)
    [] k = 2 -> _step_choose_representative_role(page)
    [] k = 3 -> _step_fill_representative_details(page)
    [] k = 4 -> _step_fill_owner_details(page)
    [] k = 5 -> _step_choose_mark_type(page)
    [] k = 6 -> _step_single_trade_mark(page)
    [] k = 7 -> _step_select_class_manually(page)
    [] k = 8 -> _step_enter_nice_classes(page)
    [] k = 9 -> _step_confirm_bottom_option(page)
    [] k = 10 -> _step_answer_no_questions(page)
    [] k = 11 -> _step_choose_standard_mark(page)
    [] k = 12 -> _step_choose_examination_type(page)
    [] k = 13 -> _step_declaration(page)
    [] k = 14 -> _step_reach_payment_screen(page)
=============================================================================
