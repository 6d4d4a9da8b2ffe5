---------------------------- MODULE SettingsRows ----------------------------
(***************************************************************************)
(* The rows in which an application's claim mappings and a user's          *)
(* attributes are edited (utils/tokenSettings.ts, TokenSettingsFields.vue, *)
(* UserAttributesCard.vue): stored as a set keyed by name, edited as a     *)
(* list, checked row by row, and turned into a set again to be saved.      *)
(* When saves fail and overlap is in ApplicationDetail and UserDetail.     *)
(***************************************************************************)
EXTENDS Naturals, Sequences, FiniteSets

CONSTANTS MaxRows,        \* bound: rows in a form
          MaxAttributes   \* the attributes a user may have

VARIABLES
    sheet,    \* what is edited: "claims" or "attributes"
    stored,   \* the set as the page has it from the server
    fields,   \* the rows
    retyped   \* history: the rows were edited since they were filled

rowVars == <<sheet, stored, fields, retyped>>

\* What is typed as a name: blank, two texts that trim to the same name, a name that every
\* object inherits, and one that is too long.
Typed == {"", "a", " a", "b", "toString", "long"}

\* What is left of a name without the spaces around it.
trim(name) == IF name = " a" THEN "a" ELSE name

\* Names for which `in` holds of an empty object.
Inherited == {"toString"}

\* A value: blank, good, or one that is neither a claim source nor JSON.
Contents == {"", "good", "bad"}

\* How a value is stored: a claim as a string or with a target, which may be left out; an
\* attribute as a string or as other JSON.  A row has the target, or whether it is JSON.
StoredAs(f) == IF f = "claims" THEN {"string", "targetless", "access", "id"} ELSE {"text", "json"}
RowKinds(f) == IF f = "claims" THEN {"access", "id"} ELSE {"text", "json"}

Rows(f) == [name : Typed, value : Contents, as : RowKinds(f)]
Entries(f) == [value : Contents, as : StoredAs(f)]

-----------------------------------------------------------------------------
(* Sets and rows *)

\* mappingsToRows and attributesToRows: the sets a list of rows shows, in some order.
AsRow(name, entry) ==
    [name |-> name, value |-> entry.value,
     as |-> IF entry.as \in {"string", "targetless"} THEN "access" ELSE entry.as]
ShownAs(set, list) ==
    /\ Len(list) = Cardinality(DOMAIN set)
    /\ {list[i] : i \in 1..Len(list)} = {AsRow(n, set[n]) : n \in DOMAIN set}

Blank(row) == trim(row.name) = "" /\ row.value = ""

\* claimNameError and sourceError; the checks of a name and of JSON.
Acceptable(f, row) ==
    /\ trim(row.name) \notin {"", "long"}
    /\ f = "claims" => row.value = "good"
    /\ row.as = "json" => row.value = "good"

\* The name belongs to an acceptable row above, or to every object.
TakenAbove(f, list, i) ==
    \/ trim(list[i].name) \in Inherited
    \/ \E j \in 1..(i - 1) : Acceptable(f, list[j]) /\ trim(list[j].name) = trim(list[i].name)

\* Mutant of errors: a name that is used twice is not noticed, and the last row wins.
errorsOfRows(f, list) ==
    {i \in 1..Len(list) : ~Blank(list[i]) /\ (~Acceptable(f, list[i])
                                                \/ trim(list[i].name) \in Inherited)}

\* The rows shown in error.
errors(f, list) ==
    {i \in 1..Len(list) : ~Blank(list[i]) /\ (~Acceptable(f, list[i]) \/ TakenAbove(f, list, i))}

\* Target "access" is stored as a string.
Entry(row) ==
    [value |-> row.value, as |-> IF row.as = "access" THEN "string" ELSE row.as]

\* rowsToMappings and rowsToAttributes: the set the rows stand for.
ToSet(f, list) ==
    LET kept == {i \in 1..Len(list) : ~Blank(list[i])} \ errors(f, list)
        row(name) == list[CHOOSE i \in kept : /\ trim(list[i].name) = name
                                              /\ \A j \in kept : trim(list[j].name) = name => j <= i] IN
    [name \in {trim(list[i].name) : i \in kept} |-> Entry(row(name))]

\* Mutant of sameMappings: the sets are compared as they are stored.
sameMappingsStored(a, b) == a = b

\* sameMappings: the string and an object without a target are equal to target "access".
sameMappings(a, b) ==
    /\ DOMAIN a = DOMAIN b
    /\ \A n \in DOMAIN a : AsRow(n, a[n]) = AsRow(n, b[n])

-----------------------------------------------------------------------------
(* The form *)

\* What the server may have: names and values the forms accept, and any text.
StoredSets(f) ==
    UNION {[names -> {e \in Entries(f) : Acceptable(f, [name |-> "a", value |-> e.value, as |-> e.as])}] :
              names \in {s \in SUBSET {"a", "b", "toString"} :
                            Cardinality(s) <= MaxRows /\ (f = "claims" \/ Cardinality(s) <= MaxAttributes)}}
Lists(f) == UNION {[1..n -> Rows(f)] : n \in 0..MaxRows}
Filled(set) ==
    {list \in UNION {[1..n -> {AsRow(m, set[m]) : m \in DOMAIN set}] : n \in {Cardinality(DOMAIN set)}} :
        ShownAs(set, list)}

Init ==
    /\ sheet \in {"claims", "attributes"}
    /\ stored \in StoredSets(sheet)
    /\ fields \in Filled(stored)
    /\ retyped = FALSE

\* The admin adds a blank row, which is not JSON.
AddRow ==
    /\ Len(fields) < MaxRows
    /\ fields' = Append(fields, [name |-> "", value |-> "",
                                 as |-> IF sheet = "claims" THEN "access" ELSE "text"])
    /\ retyped' = TRUE /\ UNCHANGED <<sheet, stored>>

RemoveRow(i) ==
    /\ fields' = SubSeq(fields, 1, i - 1) \o SubSeq(fields, i + 1, Len(fields))
    /\ retyped' = TRUE /\ UNCHANGED <<sheet, stored>>

\* Whether an attribute is JSON is fixed; a claim's target is chosen.
EditRow(i) ==
    /\ \/ \E name \in Typed : fields' = [fields EXCEPT ![i].name = name]
       \/ \E value \in Contents : fields' = [fields EXCEPT ![i].value = value]
       \/ sheet = "claims" /\ \E as \in RowKinds(sheet) : fields' = [fields EXCEPT ![i].as = as]
    /\ retyped' = TRUE /\ UNCHANGED <<sheet, stored>>

\* Saved when no row is in error (and the attributes are not too many), and for claims
\* when the set differs from the page's; the rows are filled again with what was saved.
SaveRows ==
    LET set == ToSet(sheet, fields) IN
    /\ errors(sheet, fields) = {}
    /\ IF sheet = "claims" THEN ~sameMappings(set, stored)
       ELSE Cardinality(DOMAIN set) <= MaxAttributes
    /\ stored' = set
    /\ fields' \in Filled(set)
    /\ retyped' = FALSE /\ UNCHANGED sheet

Next ==
    \/ AddRow \/ SaveRows
    \/ \E i \in 1..Len(fields) : RemoveRow(i) \/ EditRow(i)

Spec == Init /\ [][Next]_rowVars

-----------------------------------------------------------------------------
(* Properties *)

RowsTypeOK ==
    /\ sheet \in {"claims", "attributes"} /\ retyped \in BOOLEAN
    /\ stored \in UNION {[names -> Entries(sheet)] : names \in SUBSET {"a", "b", "toString"}}
    /\ fields \in Lists(sheet)

\* Rows without an error stand each for one entry of the set that is saved: none is
\* dropped, merged with another or overwritten by one with the same trimmed name.
NoRowLost ==
    errors(sheet, fields) = {} =>
        LET filled == {i \in 1..Len(fields) : ~Blank(fields[i])}
            set == ToSet(sheet, fields) IN
        /\ Cardinality(DOMAIN set) = Cardinality(filled)
        /\ \A i \in filled : AsRow(trim(fields[i].name), set[trim(fields[i].name)])
                               = [fields[i] EXCEPT !.name = trim(@)]

\* Rows nobody touched are accepted and stand for what is stored, in whichever of its forms,
\* so that claims are not sent ("sends only what changed") and attributes are sent as they
\* are.  (A stored name that every object inherits is refused as a second one of its name.)
UntouchedRowsStand ==
    ~retyped /\ DOMAIN stored \cap Inherited = {} =>
        /\ errors(sheet, fields) = {}
        /\ sameMappings(ToSet(sheet, fields), stored)
=============================================================================
