------------------------------ MODULE Inspector ------------------------------
(***************************************************************************)
(* The values of one line in the sidebar of the playground:                *)
(* Playground.Inspector of                                                 *)
(* src/compiler/crystal/tools/playground/public/session.js.  A click on    *)
(* the line opens a table of all of them, which grows while it is open.    *)
(* A value may come with data: the names and values of a tuple's parts.    *)
(***************************************************************************)
EXTENDS Naturals, Sequences, SequencesExt

CONSTANTS
  Arrival,      \* the messages a line can get
  NoData,       \* the data of a message without any
  Null,         \* null
  MaxMessages   \* bound on the messages of a line

VARIABLES
  messages,     \* this.messages
  value_type,   \* this.value_type
  lineDom,      \* what the line shows: a value or a count, and perhaps a type
  modal,        \* this.modal is open
  labels,       \* the names over the columns of the last table
  rows,         \* the rows of tableBody
  showTypes     \* Playground.settings.getShowTypes()

tableVars == <<labels, rows>>
inspectorVars == <<messages, value_type, lineDom, modal, labels, rows, showTypes>>

(* The data of a message: a sequence of names, each with its part of the   *)
(* value; here the names stand for both.                                   *)
ASSUME InspectorAssumption ==
  /\ \A m \in Arrival : DOMAIN m = {"value", "value_type", "data"}
  /\ \A m \in Arrival : m.value_type # Null
  /\ \A m \in Arrival : m.data = NoData \/ m.data \in Seq(ToSet(m.data))
  /\ MaxMessages \in Nat

(* The names of data that are not in seen, in order.                       *)
Unseen(data, seen) ==
  LET kept[n \in 0..Len(data)] ==
        IF n = 0 THEN <<>>
        ELSE IF data[n] \in seen THEN kept[n - 1] ELSE Append(kept[n - 1], data[n])
  IN  kept[Len(data)]

(* All names of messages ms, in order of appearance.                       *)
LabelsOf(ms) ==
  LET res[n \in 0..Len(ms)] ==
        IF n = 0 THEN <<>>
        ELSE IF ms[n].data = NoData THEN res[n - 1]
        ELSE res[n - 1] \o Unseen(ms[n].data, ToSet(res[n - 1]))
  IN  res[Len(ms)]

dataLabels == LabelsOf(messages)

(* A row needs the data of its message when there are columns for it:      *)
(* message.data[label] raises when there is no data at all.                *)
RowRaises(m, names) == m.data = NoData /\ names # <<>>

(* The row: its number, the parts under the columns, value and type.       *)
Row(i, m, names) ==
  [n |-> i, value |-> m.value, value_type |-> m.value_type,
   cells |-> [j \in DOMAIN names |-> names[j] \in ToSet(m.data)]]

(* The rows that are appended before one of them raises.                   *)
RowsOf(ms, names) ==
  LET raising == {i \in DOMAIN ms : RowRaises(ms[i], names)}
      n == IF raising = {} THEN Len(ms)
           ELSE (CHOOSE i \in raising : \A k \in raising : i <= k) - 1
  IN  [i \in 1..n |-> Row(i, ms[i], names)]

(* A faulty variant of TypeAfter: each type is compared with the one       *)
(* before.                                                                 *)
TypeAfterLast(m) ==
  IF messages = <<>> \/ messages[Len(messages)].value_type = m.value_type
  THEN m.value_type ELSE Null

TypeAfter(m) ==
  IF messages = <<>> \/ value_type = m.value_type THEN m.value_type ELSE Null

(* A faulty variant of addMessage: the number of a row is that of the row  *)
(* in the table.                                                           *)
addMessageNextRow(m) ==
  /\ Len(messages) < MaxMessages
  /\ messages' = Append(messages, m)
  /\ value_type' = TypeAfter(m)
  /\ lineDom' = [text |-> IF messages = <<>> THEN m.value ELSE Len(messages) + 1,
                 type |-> IF showTypes THEN value_type' ELSE Null]
  /\ rows' = IF modal /\ ~RowRaises(m, labels)
             THEN Append(rows, Row(Len(rows) + 1, m, labels)) ELSE rows
  /\ UNCHANGED <<modal, labels, showTypes>>

(* addMessage: the line first, then the row of an open table.              *)
addMessage(m) ==
  /\ Len(messages) < MaxMessages
  /\ messages' = Append(messages, m)
  /\ value_type' = TypeAfter(m)
  /\ lineDom' = [text |-> IF messages = <<>> THEN m.value ELSE Len(messages) + 1,
                 type |-> IF showTypes THEN value_type' ELSE Null]
  /\ rows' = IF modal /\ ~RowRaises(m, labels)
             THEN Append(rows, Row(Len(messages'), m, labels)) ELSE rows
  /\ UNCHANGED <<modal, labels, showTypes>>

(* A faulty variant of Click: the loop over the messages of the line ends  *)
(* one early.                                                              *)
ClickMissesLast ==
  /\ messages # <<>> /\ ~modal
  /\ labels' = dataLabels
  /\ rows' = RowsOf(Front(messages), labels')
  /\ modal' = (Len(rows') = Len(messages) - 1)
  /\ UNCHANGED <<messages, value_type, lineDom, showTypes>>

(* A click on the line, which an open dialog covers; the dialog is opened  *)
(* when every row was made.                                                *)
Click ==
  /\ messages # <<>> /\ ~modal
  /\ labels' = dataLabels
  /\ rows' = RowsOf(messages, labels')
  /\ modal' = (Len(rows') = Len(messages))
  /\ UNCHANGED <<messages, value_type, lineDom, showTypes>>

(* ModalDialog: closed, it is destroyed, and onClose forgets it.           *)
CloseModal ==
  /\ modal
  /\ modal' = FALSE
  /\ UNCHANGED <<messages, value_type, lineDom, tableVars, showTypes>>

(* The settings page of another tab.                                       *)
ChangeShowTypes ==
  /\ showTypes' = ~showTypes
  /\ UNCHANGED <<messages, value_type, lineDom, modal, tableVars>>

InspectorInit ==
  /\ messages = <<>> /\ value_type = Null
  /\ lineDom = [text |-> Null, type |-> Null]
  /\ modal = FALSE /\ labels = <<>> /\ rows = <<>>
  /\ showTypes \in BOOLEAN

InspectorNext ==
  \/ \E m \in Arrival : addMessage(m)
  \/ Click \/ CloseModal \/ ChangeShowTypes

InspectorSpec == InspectorInit /\ [][InspectorNext]_inspectorVars

-----------------------------------------------------------------------------
(* The type beside the value (value_type, "null if mismatch. keep value if *)
(* always the same."): it is the type of all the values, if they share one.*)
TypeOfAll ==
  value_type = IF \E m \in ToSet(messages) : \A k \in ToSet(messages) :
                    k.value_type = m.value_type
               THEN Head(messages).value_type ELSE Null

(* The open table has a row for every value, those that came after the     *)
(* click included, in order and under the right names (addMessage and the  *)
(* click), for lines whose values all have the same names or none.  Others *)
(* may make a row, or the whole table, fail.                               *)
TableComplete ==
  modal /\ (\A m, k \in ToSet(messages) : m.data = k.data) =>
    rows = [i \in DOMAIN messages |-> Row(i, messages[i], dataLabels)]

(* Whatever the values, a row of the open table shows a value of the line  *)
(* under its own number, and later rows later values (addMessage after a   *)
(* row that failed).                                                       *)
RowsInOrder ==
  modal =>
    /\ \A i \in DOMAIN rows :
         /\ rows[i].n \in DOMAIN messages
         /\ rows[i].value = messages[rows[i].n].value
    /\ \A i, j \in DOMAIN rows : i < j => rows[i].n < rows[j].n

=============================================================================
