------------------------------- MODULE Exports -------------------------------
(***************************************************************************)
(* The CSV exports of user-service: an admin picks a category of rows,     *)
(* columns and a filter, looks at the first rows, and downloads all of     *)
(* them.  Titles are not in the tables: course-service is asked for them,  *)
(* and the slugs they are looked up by are fetched, too.  A completed      *)
(* download is logged.                                                     *)
(*                                                                         *)
(* Of the categories, the two that have titles are here, over the tables   *)
(* of Enrolments, which change meanwhile.                                  *)
(***************************************************************************)
EXTENDS Enrolments

CONSTANTS
  Exporters,            \* slots for exports
  Wanted,               \* what is asked for: mode, category, columns and slug, or None
  PreviewLimit,         \* rows of a preview
  Blank                 \* an empty cell

ASSUME ExportAssumption ==
  /\ \A w \in Wanted : w.mode \in {"preview", "download"} /\ w.category \in {"enrollments", "path_enrollments"}
  /\ Blank \notin Keys /\ PreviewLimit \in Nat

VARIABLES
  export,               \* the export in each slot
  logs                  \* export_logs

exportVars == <<vars, export, logs>>

Enrollments ==
  [fields |-> {"userid", "courseslug", "course_title"}, defaults |-> {"userid", "courseslug"}]

PathEnrollments ==
  [fields |-> {"userid", "path_slug", "path_title"}, defaults |-> {"userid", "path_slug"}]

ExportCategories == [enrollments |-> Enrollments, path_enrollments |-> PathEnrollments]

VirtualFields == {"course_title", "path_title"}

EnrichSlugField == [course_title |-> "courseslug", path_title |-> "path_slug"]

\* counted, snapshot: history, the table when its rows were counted and read.
NoExport == [pc |-> "idle", mode |-> "preview", category |-> "enrollments", fields |-> {},
             filter |-> None, titled |-> {}, total |-> 0, sheet |-> <<>>,
             counted |-> {}, snapshot |-> {}]

ExportsInit ==
  /\ Init
  /\ export = [e \in Exporters |-> NoExport]
  /\ logs = {}

-----------------------------------------------------------------------------
(* Columns                                                                 *)

Virtual(q) == q.fields \cap VirtualFields

\* The columns asked of the database: those wanted, and the slugs the titles
\* are looked up by; all the usual ones when none is wanted.
FetchFields(q) ==
  LET fetched == (q.fields \ VirtualFields) \cup {EnrichSlugField[f] : f \in Virtual(q)}
  IN  IF fetched = {} THEN ExportCategories[q.category].defaults ELSE fetched

HelperFields(q) == IF Virtual(q) = {} THEN {} ELSE FetchFields(q) \ q.fields

\* A column the category does not have is refused, also a slug that only a
\* title asks for; a title itself is not looked for.
Buildable(q) == FetchFields(q) \subseteq ExportCategories[q.category].fields

FromClause(q) == IF q.category = "enrollments" THEN enrolled ELSE pathEnrolled

Matching(q) == {row \in FromClause(q) : q.filter = None \/ row[2] = q.filter}

\* Of a course its public listing gives the title, of a path any; the title is
\* the slug here.
Titled == {k \in Keys : IF k \in Courses THEN Visible(k) ELSE upstream[k] # None}

\* One row with the titles filled in.
Enriched(q, row) ==
  [f \in FetchFields(q) \cup Virtual(q) |->
     CASE f = "userid" -> row[1]
       [] f \in {"courseslug", "path_slug"} -> row[2]
       [] f \in VirtualFields -> IF row[2] \in q.titled THEN row[2] ELSE Blank]

\* What a preview shows of a row, and what a download writes.
PreviewRow(q, row) ==
  LET all == Enriched(q, row) IN [f \in DOMAIN all \ HelperFields(q) |-> all[f]]

CSVRecord(q, row) ==
  IF Virtual(q) = {} THEN Enriched(q, row) ELSE [f \in q.fields |-> Enriched(q, row)[f]]

-----------------------------------------------------------------------------
(* Previews                                                                *)

Set(e, q) == export' = [export EXCEPT ![e] = q]

ExportPreview(e, q) ==
  /\ Ask /\ export[e].pc = "idle"
  /\ q.mode = "preview"
  /\ IF Buildable(q) THEN Set(e, [q EXCEPT !.pc = "count"]) ELSE UNCHANGED export
  /\ UNCHANGED <<cacheVars, xp, tables, admitted, request, logs>>

\* Two statements: the number of rows, and the first of them.
FetchCount(e) ==
  LET q == export[e] IN
  /\ q.pc = "count"
  /\ Set(e, [q EXCEPT !.pc = "rows", !.total = Cardinality(Matching(q)), !.counted = FromClause(q)])
  /\ UNCHANGED <<vars, logs>>

Least(a, b) == IF a < b THEN a ELSE b

FetchRows(e) ==
  LET q == export[e]
      next == IF Virtual(q) = {} THEN "answer" ELSE "titles"
  IN
  /\ q.pc = "rows"
  /\ \E shown \in SUBSET Matching(q) :
       /\ Cardinality(shown) = Least(PreviewLimit, Cardinality(Matching(q)))
       /\ Set(e, [q EXCEPT !.pc = next, !.snapshot = FromClause(q),
                           !.sheet = [row \in shown |-> PreviewRow(q, row)]])
  /\ UNCHANGED <<vars, logs>>

\* The titles that could be fetched; none when the call fails.
RowEnricher(e) ==
  LET q == export[e] IN
  /\ q.pc = "titles"
  /\ \E titled \in {Titled, {}} :
       LET known == [q EXCEPT !.titled = titled] IN
       IF q.mode = "preview"
       THEN Set(e, [known EXCEPT !.pc = "answer",
                                 !.sheet = [row \in DOMAIN q.sheet |-> PreviewRow(known, row)]])
       ELSE Set(e, [known EXCEPT !.pc = "stream"])
  /\ UNCHANGED <<vars, logs>>

Answer(e) ==
  /\ export[e].pc = "answer"
  /\ Set(e, NoExport)
  /\ UNCHANGED <<vars, logs>>

-----------------------------------------------------------------------------
(* Downloads                                                               *)

\* The answer begins before anything is looked at, so that nothing can be
\* refused any more.
ExportDownload(e, q) ==
  /\ Ask /\ export[e].pc = "idle"
  /\ q.mode = "download"
  /\ Set(e, [q EXCEPT !.pc = IF Virtual(q) = {} THEN "stream" ELSE "titles"])
  /\ UNCHANGED <<cacheVars, xp, tables, admitted, request, logs>>

\* Mutant: reading stops early, and nobody asks why.
StreamUnchecked(e) ==
  LET q == export[e] IN
  /\ q.pc = "stream"
  /\ \E written \in SUBSET Matching(q) :
       IF Buildable(q)
       THEN Set(e, [q EXCEPT !.pc = "log", !.total = Cardinality(written), !.snapshot = FromClause(q),
                             !.sheet = [row \in written |-> CSVRecord(q, row)]])
       ELSE Set(e, NoExport)
  /\ UNCHANGED <<vars, logs>>

\* The rows of one moment, written as they are read.  Where reading or writing
\* stops, the download stops, and is not logged.
StreamRows(e) ==
  LET q == export[e] IN
  /\ q.pc = "stream"
  /\ \E written \in SUBSET Matching(q) :
       IF Buildable(q) /\ written = Matching(q)
       THEN Set(e, [q EXCEPT !.pc = "log", !.total = Cardinality(written), !.snapshot = FromClause(q),
                             !.sheet = [row \in written |-> CSVRecord(q, row)]])
       ELSE Set(e, NoExport)
  /\ UNCHANGED <<vars, logs>>

\* With titles each record is put together on its way out.
WriteCSV(e) == Virtual(export[e]) = {} /\ StreamRows(e)

WriteEnrichedCSV(e) == Virtual(export[e]) # {} /\ StreamRows(e)

LogDownload(e) ==
  LET q == export[e] IN
  /\ q.pc = "log"
  /\ logs' = logs \cup {[category |-> q.category, fields |-> q.fields, rowCount |-> q.total]}
  /\ Set(e, NoExport)
  /\ UNCHANGED vars

\* A preview ends with an error, a download without a log entry.
ExportFails(e) ==
  /\ export[e].pc \in {"count", "rows", "log"}
  /\ Set(e, NoExport)
  /\ UNCHANGED <<vars, logs>>

ExportStep(e) ==
  \/ \E w \in Wanted :
       LET q == [NoExport EXCEPT !.mode = w.mode, !.category = w.category, !.fields = w.fields,
                                 !.filter = w.filter]
       IN  ExportPreview(e, q) \/ ExportDownload(e, q)
  \/ FetchCount(e) \/ FetchRows(e) \/ RowEnricher(e) \/ Answer(e)
  \/ WriteCSV(e) \/ WriteEnrichedCSV(e) \/ LogDownload(e)
  \/ ExportFails(e)

ExportsNext ==
  \/ Next /\ UNCHANGED <<export, logs>>
  \/ \E e \in Exporters : ExportStep(e)

ExportsSpec == ExportsInit /\ [][ExportsNext]_exportVars

-----------------------------------------------------------------------------
(* Safety                                                                  *)

Columns(q) == IF q.fields = {} THEN ExportCategories[q.category].defaults ELSE q.fields

\* A title is that of the row's own course or path, which was there, and public
\* if it is a course, at some time.
Entitled(title, slug) ==
  title = Blank \/ /\ title = slug
                   /\ \E t \in 0..clock : \E v \in was[slug][t] :
                        v # None /\ (slug \in Courses => v.public)

\* "ExportDownload streams the full dataset as UTF-8 CSV and logs the download",
\* "WriteCSV streams the full dataset", "LogDownload inserts an audit record for
\* a completed CSV download": whatever enrolments come and go, a download that
\* is about to be logged has all the rows that matched at one moment, and their
\* number goes into the log; a preview has as many of them as it may, and when
\* nothing changed between its two statements it counted them right.  Both have
\* the columns asked for and no others, and show no title of a private course.
SheetsFaithful ==
  \A e \in Exporters :
    LET q == export[e]
        rows == {row \in q.snapshot : q.filter = None \/ row[2] = q.filter}
    IN  q.pc \in {"answer", "log"} =>
          /\ DOMAIN q.sheet \subseteq rows
          /\ q.mode = "download" => DOMAIN q.sheet = rows /\ q.total = Cardinality(rows)
          /\ q.mode = "preview" /\ q.counted = q.snapshot =>
               q.total = Cardinality(rows) /\ Cardinality(DOMAIN q.sheet) = Least(PreviewLimit, q.total)
          /\ \A row \in DOMAIN q.sheet :
               /\ DOMAIN q.sheet[row] = Columns(q)
               /\ \A f \in Columns(q) \cap VirtualFields : Entitled(q.sheet[row][f], row[2])
=============================================================================
