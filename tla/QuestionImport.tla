--------------------------- MODULE QuestionImport ---------------------------
(***************************************************************************)
(* The import of questions from a file: QuestionQueueImportParser and      *)
(* QuestionQueueImportPreview as operators.  A file is the record          *)
(*   [ext, header, rows]                                                   *)
(* where header says whether its first line names the question column and  *)
(* rows are the lines after it (all lines, when there is no header).  A    *)
(* cell is a text, or one of the abnormal values below; the text a cell    *)
(* holds stands for it after normalize_question_text and strip.            *)
(***************************************************************************)
EXTENDS Naturals, Sequences, SequencesExt

CONSTANTS Fingerprint,   \* Fingerprint[x]: the text x, whitespace and case folded
          Grades,        \* the values of GradeEnum
          None

(* Abnormal cells: no cell at all, a blank text, a text above
   question_max_length, a number or a date. *)
Missing == "missing"
Blank == "blank"
Long == "long"
NotText == "notText"

(* QuestionQueueImportInvalidError, as the result of an operator: a file or a
   selection that is accepted always has rows. *)
Invalid == <<>>

(* normalize_optional_text *)
OptionalText(cell) == IF cell \in {Missing, Blank} THEN None ELSE cell

(* The columns a format has: a .txt line is a question; a .csv file names
   its columns; a workbook without a header has questions in column one. *)
Columns(file, row) ==
  IF file.ext = ".txt"
  THEN [question |-> IF row.question = Missing THEN Blank ELSE row.question,
        sheet |-> Missing, grade |-> Missing]
  ELSE IF file.ext = ".csv"
  THEN [row EXCEPT !.question = IF @ = Missing THEN Blank ELSE @]
  ELSE IF file.header THEN row
  ELSE [row EXCEPT !.sheet = Missing, !.grade = Missing]

(* The number of the first row with a question, as the file shows it. *)
FirstRowNumber(file) == IF file.ext # ".txt" /\ file.header THEN 2 ELSE 1

(* parse_rows, and the refusals of preview *)
Parsed(file) ==
  IF \/ file.ext \notin {".txt", ".csv", ".xlsx", ".xlsm"}
     \/ file.ext = ".csv" /\ ~file.header
     \/ file.rows = <<>>
  THEN Invalid
  ELSE [k \in DOMAIN file.rows |->
          [number |-> FirstRowNumber(file) + k - 1, cells |-> Columns(file, file.rows[k])]]

(* The errors preview_row finds in a row *)
Errors(cells) ==
  {code \in {"QUESTION_NOT_TEXT", "QUESTION_BLANK", "QUESTION_TOO_LONG",
             "SHEET_NOT_TEXT", "GRADE_NOT_TEXT", "GRADE_INVALID"} :
     CASE code = "QUESTION_NOT_TEXT" -> cells.question \in {Missing, NotText}
       [] code = "QUESTION_BLANK" -> cells.question = Blank
       [] code = "QUESTION_TOO_LONG" -> cells.question = Long
       [] code = "SHEET_NOT_TEXT" -> cells.sheet = NotText
       [] code = "GRADE_NOT_TEXT" -> cells.grade = NotText
       [] code = "GRADE_INVALID" -> OptionalText(cells.grade) \notin Grades \cup {None, NotText}}

PreviewRow(row) ==
  [number |-> row.number, issues |-> Errors(row.cells),
   params |-> IF Errors(row.cells) = {}
              THEN [text |-> row.cells.question, sheet |-> OptionalText(row.cells.sheet)]
              ELSE None]

Preview(file) ==
  IF Parsed(file) = Invalid THEN Invalid
  ELSE [k \in DOMAIN Parsed(file) |-> PreviewRow(Parsed(file)[k])]

(* What two questions must share to be duplicates *)
KeyOf(params) == <<params.sheet, Fingerprint[params.text]>>

(* Deviation: only the row before is compared *)
DuplicateOfPrevious(preview, k) ==
  k > 1 /\ preview[k - 1].params # None /\ KeyOf(preview[k - 1].params) = KeyOf(preview[k].params)

(* An earlier row that can be imported has the same key. *)
DuplicateInFile(preview, k) ==
  \E j \in 1 .. k - 1 :
    preview[j].params # None /\ KeyOf(preview[j].params) = KeyOf(preview[k].params)

DuplicateWarnings(preview, k, queued) ==
  (IF DuplicateInFile(preview, k) THEN {"DUPLICATE_IN_FILE"} ELSE {})
    \cup (IF KeyOf(preview[k].params) \in queued THEN {"DUPLICATE_IN_QUEUE"} ELSE {})

(* with_duplicate_warnings, given the keys that are queued *)
WithDuplicateWarnings(preview, queued) ==
  [k \in DOMAIN preview |->
     IF preview[k].params = None THEN preview[k]
     ELSE [preview[k] EXCEPT !.issues = @ \cup DuplicateWarnings(preview, k, queued)]]

(* selected_by_default: rows that can be imported and have no issue *)
SelectedByDefault(preview) ==
  {preview[k].number : k \in {k \in DOMAIN preview :
                                preview[k].params # None /\ preview[k].issues = {}}}

(* selected_questions: the row numbers are distinct, at least one, and each
   names a row that can be imported; the questions keep their places in the
   file. *)
SelectedQuestions(preview, numbers) ==
  LET chosen == {k \in DOMAIN preview :
                   preview[k].number \in Range(numbers) /\ preview[k].params # None} IN
  IF \/ numbers = <<>> \/ ~IsInjective(numbers)
     \/ \E n \in Range(numbers) : ~\E k \in chosen : preview[k].number = n
  THEN Invalid
  ELSE [k \in chosen |-> preview[k].params]
=============================================================================
