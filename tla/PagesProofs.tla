----------------------------- MODULE PagesProofs -----------------------------
(***************************************************************************)
(* For any number of tabs, codes and settings: the code of a page comes    *)
(* back, and settings stay as they were chosen. For every kind of messages *)
(* and any number of them: the type of a line of the inspector is that of  *)
(* all its values, and its table shows them in order.                      *)
(***************************************************************************)
EXTENDS Pages, Inspector, WellFoundedInduction, TLAPS

-----------------------------------------------------------------------------
(***************************************************************************)
(* The code and the settings of the pages.                                 *)
(***************************************************************************)
LEMMA PagesConstants ==
  /\ Empty \in Code /\ DefaultSource \in Code \ {Empty} /\ None \notin Code
  /\ Default \in [Key -> UNION {Value[k] : k \in Key}]
  /\ \A k \in Key : /\ Default[k] \in Value[k] /\ None \notin Value[k]
                    /\ \A v \in Value[k] : /\ Field[k][v] \in Value[k]
                                           /\ Field[k][Field[k][v]] = Field[k][v]
BY PagesAssumption

(* A main page always opens with some code.                                *)
LEMMA SomeCode ==
  ASSUME NEW t \in Tab, session[t] \in Code \cup {None},
         source \in Code \cup {None}, local \in Code \cup {None}
  PROVE  InitialCode(t) \in Code
BY PagesConstants DEF InitialCode, Or, Truthy

-----------------------------------------------------------------------------
CodeTypes ==
  /\ page \in [Tab -> {"main", "settings", "other"}]
  /\ source \in Code \cup {None} /\ local \in Code \cup {None}
  /\ session \in [Tab -> Code \cup {None}]
  /\ editor \in [Tab -> Code \cup {None}]
  /\ typed \in [Tab -> Code \cup {None}]

(* The tab keeps the code of the page it has left, or of its opener; a new *)
(* tab keeps none; what all tabs share is what was saved last.             *)
CodesInv ==
  /\ CodeTypes
  /\ \A t \in Tab : page[t] = "main" => editor[t] = typed[t] /\ typed[t] # None
  /\ hasStorage => \A t \in Tab : page[t] # "main" /\ typed[t] # None => session[t] = typed[t]
  /\ \A t \in Tab : typed[t] = None => session[t] = None
  /\ hasStorage => local = latest

LEMMA CodesInit == PagesInit => CodesInv
BY DEF PagesInit, CodesInv, CodeTypes

LEMMA CodesStep == CodesInv /\ [PagesNext]_pagesVars => CodesInv'
<1> SUFFICES ASSUME CodesInv, [PagesNext]_pagesVars PROVE CodesInv'
  OBVIOUS
<1> USE DEF CodesInv, CodeTypes, codeVars, settingVars, hasStorage
<1>1. ASSUME NEW t \in Tab, OpenMain(t) PROVE CodesInv'
  <2> DEFINE c == InitialCode(t)
  <2>1. c \in Code /\ c # None BY SomeCode, PagesConstants
  <2>2. page' = [page EXCEPT ![t] = "main"] /\ editor' = [editor EXCEPT ![t] = c]
        /\ typed' = [typed EXCEPT ![t] = c]
        /\ UNCHANGED <<storage, source, local, session, latest>>
    BY <1>1 DEF OpenMain
  <2> HIDE DEF c
  <2> QED BY <2>1, <2>2
<1>2. ASSUME NEW t \in Tab, LeaveMain(t) PROVE CodesInv'
  <2>1. editor[t] \in Code \cup {None} /\ editor[t] = typed[t] /\ typed[t] # None
    BY <1>2 DEF LeaveMain
  <2>2. CASE hasStorage
    BY <1>2, <2>1, <2>2 DEF LeaveMain, saveAsLastCode
  <2>3. CASE ~hasStorage
    BY <1>2, <2>1, <2>3 DEF LeaveMain, saveAsLastCode
  <2> QED BY <2>2, <2>3
<1>3. ASSUME NEW t \in Tab, NewTab(t) PROVE CodesInv'
  BY <1>3 DEF NewTab
<1>4. ASSUME NEW t \in Tab, OpenSettings(t) PROVE CodesInv'
  BY <1>4 DEF OpenSettings
<1>5. ASSUME NEW t \in Tab, LeaveSettings(t) PROVE CodesInv'
  BY <1>5 DEF LeaveSettings
<1>6. ASSUME NEW t \in Tab, NEW c \in Code, Edit(t, c) PROVE CodesInv'
  <2>1. c # None BY PagesConstants
  <2>2. CASE hasStorage
    BY <1>6, <2>1, <2>2 DEF Edit, saveAsLastCode
  <2>3. CASE ~hasStorage
    BY <1>6, <2>1, <2>3 DEF Edit, saveAsLastCode
  <2> QED BY <2>2, <2>3
<1>7. ASSUME NEW t \in Tab, NEW k \in Key, NEW v \in Value[k], ChangeField(t, k, v)
      PROVE  CodesInv'
  BY <1>7 DEF ChangeField
<1>8. CASE Crash
  BY <1>8 DEF Crash
<1>9. CASE UNCHANGED pagesVars
  BY <1>9 DEF pagesVars
<1>10. ASSUME NEW t \in Tab, NEW u \in Tab, SaveAsGist(t, u) PROVE CodesInv'
  BY <1>10 DEF SaveAsGist
<1> QED
  BY <1>1, <1>2, <1>3, <1>4, <1>5, <1>6, <1>7, <1>8, <1>9, <1>10 DEF PagesNext, LoadFile

LEMMA CodesInvariant == PagesSpec => []CodesInv
<1>1. PagesInit => CodesInv BY CodesInit
<1>2. CodesInv /\ [PagesNext]_pagesVars => CodesInv' BY CodesStep
<1> QED BY <1>1, <1>2, PTL DEF PagesSpec

LEMMA ComesBack ==
  ASSUME CodesInv, NEW t \in Tab, OpenMain(t), hasStorage, Truthy(typed[t])
  PROVE  editor'[t] = typed[t]
<1>1. page[t] # "main" /\ typed[t] # None
  BY DEF OpenMain, Truthy
<1>2. session[t] = typed[t] BY <1>1 DEF CodesInv
<1>3. InitialCode(t) = typed[t] BY <1>2 DEF InitialCode, Or
<1> QED BY <1>3 DEF OpenMain, CodesInv, CodeTypes

LEMMA IsStillThere ==
  ASSUME CodesInv, NEW t \in Tab, OpenMain(t), hasStorage, source = None,
         typed[t] = None, Truthy(latest)
  PROVE  editor'[t] = latest
<1>1. session[t] = None /\ local = latest BY DEF CodesInv
<1>2. InitialCode(t) = latest BY <1>1 DEF InitialCode, Or, Truthy
<1> QED BY <1>2 DEF OpenMain, CodesInv, CodeTypes

(* Whoever navigates back to the main page finds the code of the tab, with *)
(* any number of other tabs that edit meanwhile.                           *)
THEOREM PagesBackAndForth == PagesSpec => BackAndForth
<1>1. CodesInv /\ [PagesNext]_pagesVars =>
        [\A t \in Tab : OpenMain(t) /\ hasStorage /\ Truthy(typed[t])
                          => editor'[t] = typed[t]]_pagesVars
  BY ComesBack
<1> QED BY <1>1, CodesInvariant, PTL DEF PagesSpec, BackAndForth

(* A new tab, which no other page opened, opens with what was typed or     *)
(* left last, in any tab, a crash of the browser notwithstanding.          *)
THEOREM PagesStillThere == PagesSpec => StillThere
<1>1. CodesInv /\ [PagesNext]_pagesVars =>
        [\A t \in Tab : OpenMain(t) /\ hasStorage /\ source = None
                        /\ typed[t] = None /\ Truthy(latest)
                          => editor'[t] = latest]_pagesVars
  BY IsStillThere
<1> QED BY <1>1, CodesInvariant, PTL DEF PagesSpec, StillThere

-----------------------------------------------------------------------------
AnyValue == UNION {Value[k] : k \in Key}

(* What a settings page may hold.                                          *)
Fields == {f \in [Key -> AnyValue] : \A k \in Key : f[k] \in Value[k]}

(* f means the same settings as g.                                         *)
Agree(f, g) == \A k \in Key : Field[k][f[k]] = Field[k][g[k]]

(* Without contest every settings page that is open shows what was chosen, *)
(* so that it does no harm when it saves everything.                       *)
SettingsInv ==
  /\ page \in [Tab -> {"main", "settings", "other"}]
  /\ settings \in [Key -> AnyValue \cup {None}]
  /\ \A k \in Key : settings[k] \in Value[k] \cup {None}
  /\ choice \in Fields
  /\ DOMAIN fields = Tab
  /\ \A t \in Tab : page[t] = "settings" => fields[t] \in Fields
  /\ hasStorage /\ ~contested =>
       \A t \in Tab : page[t] = "settings" => Agree(fields[t], choice)
  /\ SettingsKept

LEMMA SettingsInit == PagesInit => SettingsInv
<1> SUFFICES ASSUME PagesInit PROVE SettingsInv
  OBVIOUS
<1>1. Default \in Fields BY PagesConstants DEF Fields, AnyValue
<1>2. SettingsKept BY DEF PagesInit, SettingsKept, _readSetting
<1> QED BY <1>1, <1>2 DEF PagesInit, SettingsInv

(* What is read from settings that stay what they were, or become fs.      *)
LEMMA ReadAfterSave ==
  ASSUME NEW fs \in Fields, settings' = fs, hasStorage, storage' = storage, NEW k \in Key
  PROVE  _readSetting(k)' = fs[k]
BY PagesConstants DEF Fields, _readSetting, hasStorage

LEMMA SettingsStep == SettingsInv /\ [PagesNext]_pagesVars => SettingsInv'
<1> SUFFICES ASSUME SettingsInv, [PagesNext]_pagesVars PROVE SettingsInv'
  OBVIOUS
<1>0. storage' = storage
  BY DEF PagesNext, OpenMain, LeaveMain, NewTab, OpenSettings, LeaveSettings, Edit,
         ChangeField, SaveAsGist, LoadFile, Crash, pagesVars
<1>a. ASSUME UNCHANGED <<settings, fields, choice, contested>>,
             page' \in [Tab -> {"main", "settings", "other"}],
             \A t \in Tab : page'[t] = "settings" => page[t] = "settings"
      PROVE  SettingsInv'
  BY <1>0, <1>a DEF SettingsInv, SettingsKept, _readSetting, hasStorage, Agree
<1>1. ASSUME NEW t \in Tab, OpenMain(t) \/ LeaveMain(t) \/ NewTab(t) PROVE SettingsInv'
  BY <1>1, <1>a DEF OpenMain, LeaveMain, NewTab, settingVars, SettingsInv
<1>8. ASSUME NEW t \in Tab, NEW u \in Tab, SaveAsGist(t, u) PROVE SettingsInv'
  BY <1>8, <1>a DEF SaveAsGist, settingVars, SettingsInv
<1>2. ASSUME NEW t \in Tab, OpenSettings(t) PROVE SettingsInv'
  <2>1. \A k \in Key : _readSetting(k) \in Value[k]
    BY PagesConstants DEF SettingsInv, _readSetting
  <2>2. LoadedFields \in Fields
    BY <2>1, PagesConstants DEF LoadedFields, Fields, AnyValue
  <2>3. hasStorage /\ ~contested => Agree(LoadedFields, choice)
    BY <2>1, PagesConstants DEF LoadedFields, Agree, SettingsInv, SettingsKept
  <2>4. fields' = [fields EXCEPT ![t] = LoadedFields]
        /\ page' = [page EXCEPT ![t] = "settings"]
        /\ UNCHANGED <<settings, choice, contested>>
    BY <1>2 DEF OpenSettings
  <2>5. SettingsKept'
    BY <1>0, <2>4 DEF SettingsInv, SettingsKept, _readSetting, hasStorage
  <2> QED BY <1>0, <2>2, <2>3, <2>4, <2>5 DEF SettingsInv, hasStorage, Agree
<1>3. ASSUME NEW t \in Tab, LeaveSettings(t) PROVE SettingsInv'
  <2>1. fields[t] \in Fields /\ (hasStorage /\ ~contested => Agree(fields[t], choice))
    BY <1>3 DEF LeaveSettings, SettingsInv
  <2>2. page' = [page EXCEPT ![t] = "other"] /\ fields' = [fields EXCEPT ![t] = None]
        /\ settings' = (IF hasStorage THEN fields[t] ELSE settings)
        /\ UNCHANGED <<choice, contested>>
    BY <1>3 DEF LeaveSettings, saveSettings
  <2>3. settings' \in [Key -> AnyValue \cup {None}]
        /\ \A k \in Key : settings'[k] \in Value[k] \cup {None}
    BY <2>1, <2>2 DEF SettingsInv, Fields
  <2>4. SettingsKept'
    <3> SUFFICES ASSUME hasStorage, ~contested, NEW k \in Key
                 PROVE  Field[k][_readSetting(k)'] = Field[k][choice[k]]
      BY <1>0, <2>2 DEF SettingsKept, hasStorage
    <3>1. _readSetting(k)' = fields[t][k]
      BY <1>0, <2>1, <2>2, ReadAfterSave
    <3> QED BY <2>1, <3>1 DEF Agree
  <2> QED BY <1>0, <2>2, <2>3, <2>4 DEF SettingsInv, hasStorage, Agree
<1>4. ASSUME NEW t \in Tab, NEW c \in Code, Edit(t, c) PROVE SettingsInv'
  BY <1>4, <1>a DEF Edit, settingVars, SettingsInv
<1>5. ASSUME NEW t \in Tab, NEW k \in Key, NEW v \in Value[k], ChangeField(t, k, v)
      PROVE  SettingsInv'
  <2> DEFINE fs == [fields[t] EXCEPT ![k] = v]
             ch == [choice EXCEPT ![k] = v]
  <2>1. fields[t] \in Fields /\ choice \in Fields BY <1>5 DEF ChangeField, SettingsInv
  <2>2. fs \in Fields /\ ch \in Fields
    BY <2>1 DEF Fields, AnyValue
  <2>3. hasStorage /\ ~contested => Agree(fs, ch)
    BY <1>5, <2>1 DEF ChangeField, SettingsInv, Agree, Fields
  <2>4. fields' = [fields EXCEPT ![t] = fs] /\ choice' = ch /\ page' = page
        /\ settings' = (IF hasStorage THEN fs ELSE settings)
        /\ (~contested' => ~contested /\ \A u \in Tab \ {t} : page[u] # "settings")
    BY <1>5 DEF ChangeField, saveSettings, SettingsInv
  <2> HIDE DEF fs, ch
  <2>5. settings' \in [Key -> AnyValue \cup {None}]
        /\ \A j \in Key : settings'[j] \in Value[j] \cup {None}
    BY <2>2, <2>4 DEF SettingsInv, Fields
  <2>6. SettingsKept'
    <3> SUFFICES ASSUME hasStorage, ~contested, NEW j \in Key
                 PROVE  Field[j][_readSetting(j)'] = Field[j][ch[j]]
      BY <1>0, <2>4 DEF SettingsKept, hasStorage
    <3>1. _readSetting(j)' = fs[j]
      BY <1>0, <2>2, <2>4, ReadAfterSave
    <3> QED BY <2>3, <3>1 DEF Agree
  <2> QED BY <1>0, <2>2, <2>3, <2>4, <2>5, <2>6 DEF SettingsInv, hasStorage, Agree
<1>6. CASE Crash
  BY <1>6, <1>0 DEF Crash, SettingsInv, SettingsKept, _readSetting, hasStorage
<1>7. CASE UNCHANGED pagesVars
  BY <1>7, <1>a DEF pagesVars, settingVars, SettingsInv
<1> QED BY <1>1, <1>2, <1>3, <1>4, <1>5, <1>6, <1>7, <1>8 DEF PagesNext, LoadFile

(* Settings mean what was chosen, however many pages come and go, for any  *)
(* settings whose fields show a value they are given again as it is.       *)
THEOREM PagesSettings == PagesSpec => []SettingsKept
<1>1. PagesInit => SettingsInv BY SettingsInit
<1>2. SettingsInv /\ [PagesNext]_pagesVars => SettingsInv' BY SettingsStep
<1>3. SettingsInv => SettingsKept BY DEF SettingsInv
<1> QED BY <1>1, <1>2, <1>3, PTL DEF PagesSpec

-----------------------------------------------------------------------------
(***************************************************************************)
(* The inspector of a line.                                                *)
(***************************************************************************)
LEMMA LeastOf ==
  ASSUME NEW S, S \subseteq Nat, S # {}
  PROVE  \E x \in S : \A y \in S : x <= y
<1>1. \E x \in S : \A y \in S : ~(<<y, x>> \in OpToRel(<, Nat))
  BY NatLessThanWellFounded, WFMin
<1>2. PICK x \in S : \A y \in S : ~(<<y, x>> \in OpToRel(<, Nat))
  BY <1>1
<1>3. \A y \in S : ~(y < x)
  BY <1>2 DEF OpToRel
<1> QED BY <1>3

-----------------------------------------------------------------------------
(* As far as the type of the line goes.                                    *)
TypesInv ==
  /\ messages \in Seq(Arrival)
  /\ messages = <<>> => value_type = Null
  /\ messages # <<>> =>
       \/ /\ \A i \in 1..Len(messages) : messages[i].value_type = messages[1].value_type
          /\ value_type = messages[1].value_type
       \/ /\ \E i \in 1..Len(messages) : messages[i].value_type # messages[1].value_type
          /\ value_type = Null

LEMMA TypesInvImplies == TypesInv => TypeOfAll
<1> SUFFICES ASSUME TypesInv PROVE TypeOfAll
  OBVIOUS
<1>1. ToSet(messages) = {messages[i] : i \in 1..Len(messages)}
  BY DEF TypesInv, ToSet
<1>2. CASE messages = <<>>
  BY <1>1, <1>2 DEF TypesInv, TypeOfAll
<1>3. CASE messages # <<>>
  <2>1. Head(messages) = messages[1] /\ 1 \in 1..Len(messages)
    BY <1>3 DEF TypesInv
  <2>2. CASE \A i \in 1..Len(messages) : messages[i].value_type = messages[1].value_type
    <3>1. \E m \in ToSet(messages) : \A k \in ToSet(messages) : k.value_type = m.value_type
      BY <1>1, <2>1, <2>2
    <3> QED BY <1>3, <2>1, <2>2, <3>1 DEF TypesInv, TypeOfAll
  <2>3. CASE \E i \in 1..Len(messages) : messages[i].value_type # messages[1].value_type
    <3>1. ~\E m \in ToSet(messages) : \A k \in ToSet(messages) : k.value_type = m.value_type
      BY <1>1, <2>1, <2>3
    <3> QED BY <1>3, <2>3, <3>1 DEF TypesInv, TypeOfAll
  <2> QED BY <2>2, <2>3
<1> QED BY <1>2, <1>3

LEMMA TypesInvStep == TypesInv /\ [InspectorNext]_inspectorVars => TypesInv'
<1> SUFFICES ASSUME TypesInv, [InspectorNext]_inspectorVars PROVE TypesInv'
  OBVIOUS
<1>1. ASSUME NEW m \in Arrival, addMessage(m) PROVE TypesInv'
  <2>1. messages' = Append(messages, m) /\ messages' \in Seq(Arrival) /\ messages' # <<>>
        /\ Len(messages') = Len(messages) + 1
        /\ messages'[Len(messages) + 1] = m
        /\ \A i \in 1..Len(messages) : messages'[i] = messages[i]
    BY <1>1 DEF addMessage, TypesInv
  <2>2. value_type' = TypeAfter(m) /\ m.value_type # Null
    BY <1>1, InspectorAssumption DEF addMessage
  <2>3. CASE messages = <<>>
    <3>1. Len(messages) = 0 BY <2>3
    <3> QED BY <2>1, <2>2, <2>3, <3>1 DEF TypesInv, TypeAfter
  <2>4. CASE messages # <<>>
    <3>1. Len(messages) \in Nat \ {0} /\ messages[1] \in Arrival /\ messages'[1] = messages[1]
      BY <2>1, <2>4 DEF TypesInv
    <3>2. messages[1].value_type # Null
      BY <3>1, InspectorAssumption
    <3>3. CASE /\ \A i \in 1..Len(messages) : messages[i].value_type = messages[1].value_type
               /\ value_type = messages[1].value_type
      <4>1. CASE m.value_type = messages[1].value_type
        BY <2>1, <2>2, <2>4, <3>1, <3>3, <4>1 DEF TypesInv, TypeAfter
      <4>2. CASE m.value_type # messages[1].value_type
        <5>1. \E i \in 1..Len(messages') : messages'[i].value_type # messages'[1].value_type
          BY <2>1, <3>1, <4>2
        <5>2. value_type' = Null
          BY <2>2, <2>4, <3>3, <4>2 DEF TypeAfter
        <5> QED BY <2>1, <5>1, <5>2 DEF TypesInv
      <4> QED BY <4>1, <4>2
    <3>4. CASE /\ \E i \in 1..Len(messages) : messages[i].value_type # messages[1].value_type
               /\ value_type = Null
      <4>1. \E i \in 1..Len(messages') : messages'[i].value_type # messages'[1].value_type
        BY <2>1, <3>1, <3>4
      <4>2. value_type' = Null
        BY <2>2, <2>4, <3>4 DEF TypeAfter
      <4> QED BY <2>1, <4>1, <4>2 DEF TypesInv
    <3> QED BY <2>4, <3>3, <3>4 DEF TypesInv
  <2> QED BY <2>3, <2>4
<1>2. CASE UNCHANGED <<messages, value_type>>
  BY <1>2 DEF TypesInv
<1> QED BY <1>1, <1>2 DEF InspectorNext, Click, CloseModal, ChangeShowTypes, inspectorVars

(* The type shown beside the line is right for any number of values.       *)
THEOREM InspectorType == InspectorSpec => []TypeOfAll
<1>1. InspectorInit => TypesInv BY DEF InspectorInit, TypesInv
<1>2. TypesInv /\ [InspectorNext]_inspectorVars => TypesInv' BY TypesInvStep
<1> QED BY <1>1, <1>2, TypesInvImplies, PTL DEF InspectorSpec

-----------------------------------------------------------------------------
(* The rows are rows of messages, under the last labels.                   *)
AnyRow(names) == {Row(i, m, names) : i \in Nat, m \in Arrival}

RowsInv ==
  /\ messages \in Seq(Arrival)
  /\ rows \in Seq(AnyRow(labels))
  /\ RowsInOrder

LEMMA RowFields ==
  ASSUME NEW i, NEW m, NEW names
  PROVE  Row(i, m, names).n = i /\ Row(i, m, names).value = m.value
BY DEF Row

LEMMA RowsOfRows ==
  ASSUME NEW ms \in Seq(Arrival), NEW names
  PROVE  \E n \in 0..Len(ms) : RowsOf(ms, names) = [i \in 1..n |-> Row(i, ms[i], names)]
<1> DEFINE raising == {i \in DOMAIN ms : RowRaises(ms[i], names)}
           least == CHOOSE i \in raising : \A k \in raising : i <= k
           n == IF raising = {} THEN Len(ms) ELSE least - 1
<1>1. DOMAIN ms = 1..Len(ms) /\ Len(ms) \in Nat
  OBVIOUS
<1>2. raising \subseteq 1..Len(ms) /\ raising \subseteq Nat
  BY <1>1
<1>3. RowsOf(ms, names) = [i \in 1..n |-> Row(i, ms[i], names)]
  BY DEF RowsOf
<1>4. raising # {} => least \in raising
  <2> SUFFICES ASSUME raising # {} PROVE \E i \in raising : \A k \in raising : i <= k
    OBVIOUS
  <2> QED BY <1>2, LeastOf
<1> HIDE DEF raising, least
<1>5. n \in 0..Len(ms)
  <2>1. CASE raising = {}
    BY <1>1, <2>1
  <2>2. CASE raising # {}
    <3>1. least \in 1..Len(ms) BY <1>2, <1>4, <2>2
    <3>2. least - 1 \in 0..Len(ms) BY <1>1, <3>1
    <3> QED BY <2>2, <3>2
  <2> QED BY <2>1, <2>2
<1> QED BY <1>3, <1>5

LEMMA RowsInvStep == RowsInv /\ [InspectorNext]_inspectorVars => RowsInv'
<1> SUFFICES ASSUME RowsInv, [InspectorNext]_inspectorVars PROVE RowsInv'
  OBVIOUS
<1>1. ASSUME NEW m \in Arrival, addMessage(m) PROVE RowsInv'
  <2>1. messages' = Append(messages, m) /\ messages' \in Seq(Arrival)
        /\ Len(messages') = Len(messages) + 1 /\ Len(messages) \in Nat
        /\ messages'[Len(messages) + 1] = m
        /\ \A i \in 1..Len(messages) : messages'[i] = messages[i]
        /\ DOMAIN messages = 1..Len(messages) /\ DOMAIN messages' = 1..Len(messages')
    BY <1>1 DEF addMessage, RowsInv
  <2>2. UNCHANGED <<modal, labels>>
    BY <1>1 DEF addMessage
  <2>3. CASE UNCHANGED rows
    BY <2>1, <2>2, <2>3 DEF RowsInv, RowsInOrder
  <2>4. CASE modal /\ rows' = Append(rows, Row(Len(messages'), m, labels))
    <3> DEFINE r == Row(Len(messages) + 1, m, labels)
    <3>1. r \in AnyRow(labels) /\ r.n = Len(messages) + 1 /\ r.value = m.value
      BY <2>1, RowFields DEF AnyRow
    <3>2. rows' = Append(rows, r)
      BY <2>1, <2>4
    <3>a. rows \in Seq(AnyRow(labels)) BY DEF RowsInv
    <3> HIDE DEF r
    <3>3. rows' \in Seq(AnyRow(labels)) /\ Len(rows) \in Nat
          /\ DOMAIN rows = 1..Len(rows) /\ DOMAIN rows' = 1..Len(rows) + 1
          /\ rows'[Len(rows) + 1] = r
          /\ \A i \in 1..Len(rows) : rows'[i] = rows[i]
      BY <3>1, <3>2, <3>a
    <3>4. ASSUME NEW i \in 1..Len(rows)
          PROVE  /\ rows[i].n \in 1..Len(messages)
                 /\ rows[i].value = messages[rows[i].n].value
                 /\ \A j \in 1..Len(rows) : i < j => rows[i].n < rows[j].n
      <4>1. modal /\ i \in DOMAIN rows /\ \A j \in 1..Len(rows) : j \in DOMAIN rows
        BY <2>4, <3>3
      <4>2. RowsInOrder BY DEF RowsInv
      <4> QED BY <2>1, <4>1, <4>2 DEF RowsInOrder
    <3>5. RowsInOrder'
      <4>1. ASSUME NEW i \in 1..Len(rows) + 1
            PROVE  /\ rows'[i].n \in 1..Len(messages')
                   /\ rows'[i].value = messages'[rows'[i].n].value
        <5>1. CASE i \in 1..Len(rows)
          <6>1. rows'[i] = rows[i]
            BY <5>1, <3>3
          <6>2. rows[i].n \in 1..Len(messages) /\ rows[i].value = messages[rows[i].n].value
            BY <5>1, <3>4
          <6>3. messages'[rows[i].n] = messages[rows[i].n] /\ rows[i].n \in 1..Len(messages')
            BY <6>2, <2>1
          <6> QED BY <6>1, <6>2, <6>3
        <5>2. CASE i = Len(rows) + 1
          BY <5>2, <2>1, <3>1, <3>3
        <5> QED BY <5>1, <5>2, <3>3
      <4>2. ASSUME NEW i \in 1..Len(rows) + 1, NEW j \in 1..Len(rows) + 1, i < j
            PROVE  rows'[i].n < rows'[j].n
        <5>1. i \in 1..Len(rows)
          BY <4>2, <3>3
        <5>2. CASE j \in 1..Len(rows)
          BY <5>1, <5>2, <4>2, <3>3, <3>4
        <5>3. CASE j = Len(rows) + 1
          BY <5>1, <5>3, <2>1, <3>1, <3>3, <3>4
        <5> QED BY <5>2, <5>3, <3>3
      <4> QED BY <2>1, <3>3, <4>1, <4>2 DEF RowsInOrder
    <3> QED BY <2>1, <2>2, <3>3, <3>5 DEF RowsInv
  <2> QED BY <1>1, <2>3, <2>4 DEF addMessage
<1>2. CASE Click
  <2>1. PICK n \in 0..Len(messages) : rows' = [i \in 1..n |-> Row(i, messages[i], labels')]
    BY <1>2, RowsOfRows DEF Click, RowsInv
  <2>2. messages' = messages /\ Len(messages) \in Nat /\ DOMAIN messages = 1..Len(messages)
        /\ \A i \in 1..Len(messages) : messages[i] \in Arrival
    BY <1>2 DEF Click, RowsInv
  <2>3. DOMAIN rows' = 1..n /\ \A i \in 1..n : i \in 1..Len(messages) /\ i \in Nat
    BY <2>1, <2>2
  <2>4. \A i \in 1..n : /\ rows'[i].n = i /\ rows'[i].value = messages[i].value
                        /\ rows'[i] \in AnyRow(labels')
    BY <2>1, <2>2, <2>3, RowFields DEF AnyRow
  <2>5. rows' \in Seq(AnyRow(labels'))
    BY <2>1, <2>4
  <2>6. RowsInOrder'
    BY <2>2, <2>3, <2>4 DEF RowsInOrder
  <2> QED BY <2>2, <2>5, <2>6 DEF RowsInv
<1>3. CASE CloseModal \/ ChangeShowTypes
  BY <1>3 DEF CloseModal, ChangeShowTypes, tableVars, RowsInv, RowsInOrder
<1>4. CASE UNCHANGED inspectorVars
  BY <1>4 DEF inspectorVars, tableVars, RowsInv, RowsInOrder
<1> QED BY <1>1, <1>2, <1>3, <1>4 DEF InspectorNext

(* Whatever the values and their data, and whichever rows fail, the open   *)
(* table shows values of the line under their own numbers and in order.    *)
THEOREM InspectorRows == InspectorSpec => []RowsInOrder
<1>1. InspectorInit => RowsInv BY DEF InspectorInit, RowsInv, RowsInOrder
<1>2. RowsInv /\ [InspectorNext]_inspectorVars => RowsInv' BY RowsInvStep
<1>3. RowsInv => RowsInOrder BY DEF RowsInv
<1> QED BY <1>1, <1>2, <1>3, PTL DEF InspectorSpec

-----------------------------------------------------------------------------
(* Two sequences that start alike and go on alike are the same: how the    *)
(* two functions by which the columns are collected get their values.      *)
LEMMA StepByStep ==
  ASSUME NEW N \in Nat, NEW v, NEW w, v[0] = w[0],
         \A n \in 1..N : v[n - 1] = w[n - 1] => v[n] = w[n]
  PROVE  v[N] = w[N]
<1> DEFINE differ == {n \in 0..N : v[n] # w[n]}
<1>1. SUFFICES ASSUME differ # {} PROVE FALSE
  <2>1. N \in 0..N
    OBVIOUS
  <2> QED BY <2>1
<1>2. PICK n \in differ : \A k \in differ : n <= k
  <2>1. differ \subseteq Nat
    OBVIOUS
  <2> HIDE DEF differ
  <2> QED BY <1>1, <2>1, LeastOf
<1>3. n # 0 /\ n \in 1..N /\ n - 1 \in 0..N
  BY <1>2
<1>4. v[n - 1] # w[n - 1]
  BY <1>2, <1>3
<1>5. n - 1 \in differ
  BY <1>3, <1>4
<1> HIDE DEF differ
<1> QED BY <1>2, <1>3, <1>5

LEMMA UnseenIs ==
  ASSUME NEW data, Len(data) \in Nat, NEW seen, NEW V, NEW w \in [0..Len(data) -> V],
         w[0] = <<>>,
         \A n \in 1..Len(data) :
           w[n] = IF data[n] \in seen THEN w[n - 1] ELSE Append(w[n - 1], data[n])
  PROVE  Unseen(data, seen) = w[Len(data)]
<1> DEFINE Step(v, n) == IF n = 0 THEN <<>>
                         ELSE IF data[n] \in seen THEN v[n - 1] ELSE Append(v[n - 1], data[n])
           N == Len(data)
           kept == CHOOSE v : v = [n \in 0..N |-> Step(v, n)]
<1>1. Unseen(data, seen) = kept[N]
  BY DEF Unseen
<1>2. kept = [n \in 0..N |-> Step(kept, n)]
  <2>1. ASSUME NEW n \in 0..N PROVE w[n] = Step(w, n)
    <3>1. n = 0 \/ n \in 1..N
      OBVIOUS
    <3> QED BY <3>1
  <2> HIDE DEF Step
  <2>2. w = [n \in 0..N |-> Step(w, n)]
    BY <2>1
  <2> QED BY <2>2
<1> HIDE DEF kept
<1>3. kept[0] = w[0]
  BY <1>2
<1>4. ASSUME NEW n \in 1..N, kept[n - 1] = w[n - 1] PROVE kept[n] = w[n]
  <2>1. n \in 0..N /\ n # 0
    OBVIOUS
  <2>2. kept[n] = Step(kept, n) /\ w[n] = Step(w, n)
    BY <1>2, <2>1
  <2> QED BY <1>4, <2>1, <2>2
<1> QED BY <1>1, <1>3, <1>4, StepByStep

(* The names of one message are all new at first, and never again.         *)
LEMMA UnseenFirst ==
  ASSUME NEW S, NEW data \in Seq(S), NEW seen, seen = {}
  PROVE  Unseen(data, seen) = data
<1> DEFINE w == [n \in 0..Len(data) |-> [i \in 1..n |-> data[i]]]
<1>1. Len(data) \in Nat /\ data = [i \in 1..Len(data) |-> data[i]]
  OBVIOUS
<1>2. ASSUME NEW n \in 1..Len(data) PROVE w[n] = Append(w[n - 1], data[n])
  <2> DEFINE b == [i \in 1..n - 1 |-> data[i]]
  <2>1. n - 1 \in 0..Len(data) /\ w[n - 1] = b
    BY <1>1
  <2>2. \A i \in 1..n - 1 : data[i] \in S
    BY <1>1
  <2>3. b \in Seq(S) /\ Len(b) = n - 1 /\ data[n] \in S
    BY <1>1, <2>2
  <2>4. Append(b, data[n]) = [i \in 1..n |-> data[i]]
    BY <1>1, <2>3
  <2> QED BY <2>1, <2>4
<1>3. w[0] = <<>> /\ w[Len(data)] = data /\ w \in [0..Len(data) -> Seq(S)]
  <2>1. \A n \in 0..Len(data) : [i \in 1..n |-> data[i]] \in Seq(S)
    BY <1>1
  <2> QED BY <1>1, <2>1
<1> HIDE DEF w
<1>4. Unseen(data, seen) = w[Len(data)]
  BY <1>1, <1>2, <1>3, UnseenIs
<1> QED BY <1>3, <1>4

LEMMA UnseenAgain ==
  ASSUME NEW S, NEW data \in Seq(S)
  PROVE  Unseen(data, ToSet(data)) = <<>>
<1> DEFINE w == [n \in 0..Len(data) |-> <<>>]
<1>1. Len(data) \in Nat /\ \A n \in 1..Len(data) : data[n] \in ToSet(data)
  BY DEF ToSet
<1>2. \A n \in 1..Len(data) : w[n] = w[n - 1]
  BY <1>1
<1>3. w[0] = <<>> /\ w[Len(data)] = <<>> /\ w \in [0..Len(data) -> {<<>>}]
  BY <1>1
<1> HIDE DEF w
<1> QED BY <1>1, <1>2, <1>3, UnseenIs

(* The values ms all have the same names, or none; and these names.        *)
Uniform(ms) == \A i, k \in 1..Len(ms) : ms[i].data = ms[k].data

NamesOf(m) == IF m.data = NoData THEN <<>> ELSE m.data

LEMMA LabelsAre ==
  ASSUME NEW ms \in Seq(Arrival), ms # <<>>, Uniform(ms)
  PROVE  LabelsOf(ms) = NamesOf(ms[1])
<1> DEFINE Step(v, n) == IF n = 0 THEN <<>>
                         ELSE IF ms[n].data = NoData THEN v[n - 1]
                         ELSE v[n - 1] \o Unseen(ms[n].data, ToSet(v[n - 1]))
           N == Len(ms)
           d == ms[1].data
           D == NamesOf(ms[1])
           w == [n \in 0..N |-> IF n = 0 THEN <<>> ELSE D]
           res == CHOOSE v : v = [n \in 0..N |-> Step(v, n)]
<1>1. N \in Nat \ {0} /\ 1 \in 1..N /\ ms[1] \in Arrival
  OBVIOUS
<1>2. LabelsOf(ms) = res[N]
  BY DEF LabelsOf
<1>3. ASSUME NEW n \in 1..N PROVE w[n] = Step(w, n)
  <2>1. n # 0 /\ n \in 0..N /\ n - 1 \in 0..N /\ w[n] = D /\ ms[n].data = d
    BY <1>1 DEF Uniform
  <2>2. CASE d = NoData
    <3>1. D = <<>> /\ w[n - 1] = <<>>
      BY <2>1, <2>2 DEF NamesOf
    <3> HIDE DEF w, D
    <3> QED BY <2>1, <2>2, <3>1
  <2>3. CASE d # NoData
    <3>1. D = d /\ d \in Seq(ToSet(d))
      BY <1>1, <2>3, InspectorAssumption DEF NamesOf
    <3> HIDE DEF d, D
    <3>2. CASE n = 1
      <4>1. w[n - 1] = <<>> /\ ToSet(<<>>) = {}
        BY <3>2, <1>1 DEF ToSet
      <4>2. Unseen(d, {}) = d /\ <<>> \o d = d
        BY <3>1, UnseenFirst
      <4>3. ms[n].data = d
        BY <2>1
      <4>4. Step(w, n) = w[n - 1] \o Unseen(d, ToSet(w[n - 1]))
        BY <2>1, <2>3, <4>3
      <4> HIDE DEF Step, w
      <4> QED BY <2>1, <3>1, <4>1, <4>2, <4>4
    <3>3. CASE n # 1
      <4>1. w[n - 1] = d
        BY <2>1, <3>1, <3>3
      <4>2. Unseen(d, ToSet(d)) = <<>> /\ d \o <<>> = d
        BY <3>1, UnseenAgain
      <4>3. Step(w, n) = w[n - 1] \o Unseen(d, ToSet(w[n - 1]))
        BY <2>1, <2>3
      <4> HIDE DEF Step, w
      <4> QED BY <2>1, <3>1, <4>1, <4>2, <4>3
    <3> QED BY <3>2, <3>3
  <2> QED BY <2>2, <2>3
<1>4. w = [n \in 0..N |-> Step(w, n)]
  <2>1. w[0] = Step(w, 0)
    BY <1>1
  <2>2. \A n \in 0..N : n = 0 \/ n \in 1..N
    BY <1>1
  <2>3. \A n \in 0..N : w[n] = Step(w, n)
    <3> HIDE DEF w, Step
    <3> QED BY <1>3, <2>1, <2>2
  <2>4. w = [n \in 0..N |-> w[n]]
    OBVIOUS
  <2> HIDE DEF w, Step
  <2> QED BY <2>3, <2>4
<1>5. res = [n \in 0..N |-> Step(res, n)]
  <2> HIDE DEF w, Step
  <2> QED BY <1>4
<1>6. res[0] = w[0]
  <2>1. 0 \in 0..N
    BY <1>1
  <2> HIDE DEF res
  <2> QED BY <1>5, <2>1
<1>7. ASSUME NEW n \in 1..N, res[n - 1] = w[n - 1] PROVE res[n] = w[n]
  <2>1. n \in 0..N /\ n # 0
    BY <1>1
  <2> HIDE DEF w, res
  <2>2. res[n] = Step(res, n)
    <3> HIDE DEF Step
    <3> QED BY <1>5, <2>1
  <2>3. w[n] = Step(w, n)
    <3> HIDE DEF Step
    <3> QED BY <1>3
  <2> QED BY <1>7, <2>1, <2>2, <2>3
<1>8. w[N] = D
  BY <1>1
<1> HIDE DEF res, w, Step, D, d
<1>9. res[N] = w[N]
  BY <1>1, <1>6, <1>7, StepByStep
<1> QED BY <1>2, <1>8, <1>9 DEF D

(* The open table of a uniform line.                                       *)
TableInv ==
  /\ messages \in Seq(Arrival)
  /\ modal => messages # <<>>
  /\ modal /\ Uniform(messages) =>
       /\ labels = NamesOf(messages[1])
       /\ rows = [i \in 1..Len(messages) |-> Row(i, messages[i], labels)]

LEMMA TableInvStep == TableInv /\ [InspectorNext]_inspectorVars => TableInv'
<1> SUFFICES ASSUME TableInv, [InspectorNext]_inspectorVars PROVE TableInv'
  OBVIOUS
<1> DEFINE N == Len(messages)
<1>0. N \in Nat
  BY DEF TableInv
<1>1. ASSUME NEW m \in Arrival, addMessage(m) PROVE TableInv'
  <2>1. messages' = Append(messages, m) /\ messages' \in Seq(Arrival) /\ messages' # <<>>
        /\ Len(messages') = N + 1 /\ messages'[N + 1] = m
        /\ \A i \in 1..N : messages'[i] = messages[i]
    BY <1>1 DEF addMessage, TableInv
  <2>2. modal' = modal /\ labels' = labels
    BY <1>1 DEF addMessage
  <2>3. ASSUME modal, Uniform(messages')
        PROVE  /\ labels = NamesOf(messages'[1])
               /\ rows' = [i \in 1..N + 1 |-> Row(i, messages'[i], labels)]
    <3>1. 1 \in 1..N /\ N >= 1
      BY <2>3, <1>0 DEF TableInv
    <3>2. Uniform(messages)
      <4> SUFFICES ASSUME NEW i \in 1..N, NEW k \in 1..N PROVE messages[i].data = messages[k].data
        BY DEF Uniform
      <4>1. i \in 1..Len(messages') /\ k \in 1..Len(messages')
        BY <1>0, <2>1
      <4> QED BY <2>1, <2>3, <4>1 DEF Uniform
    <3>3. m.data = messages[1].data
      <4>1. 1 \in 1..Len(messages') /\ N + 1 \in 1..Len(messages')
        BY <1>0, <2>1
      <4> QED BY <2>1, <2>3, <3>1, <4>1 DEF Uniform
    <3>4. labels = NamesOf(messages[1])
          /\ rows = [i \in 1..N |-> Row(i, messages[i], labels)]
      BY <2>3, <3>2 DEF TableInv
    <3>5. ~RowRaises(m, labels)
      BY <3>3, <3>4 DEF RowRaises, NamesOf
    <3> DEFINE R(i) == Row(i, messages'[i], labels)
               r == Row(N + 1, m, labels)
    <3>6. rows' = Append(rows, r)
      BY <1>1, <2>1, <2>3, <3>5 DEF addMessage
    <3>7. rows = [i \in 1..N |-> R(i)] /\ r = R(N + 1)
      BY <2>1, <3>4
    <3> HIDE DEF R, r
    <3>8. Append(rows, r) = [i \in 1..N + 1 |-> R(i)]
      <4>1. rows \in Seq({R(i) : i \in Nat}) /\ Len(rows) = N
        BY <1>0, <3>7
      <4>2. Append(rows, r) = [i \in 1..N + 1 |-> IF i = N + 1 THEN r ELSE rows[i]]
        <5> DEFINE T == {R(i) : i \in Nat} \cup {r}
                   a == Append(rows, r)
        <5>1. a \in Seq(T) /\ Len(a) = N + 1 /\ a[N + 1] = r
              /\ \A i \in 1..N : a[i] = rows[i]
          BY <1>0, <4>1
        <5> HIDE DEF T, a
        <5>2. a = [i \in 1..N + 1 |-> a[i]]
          BY <1>0, <5>1
        <5>3. \A i \in 1..N + 1 : a[i] = IF i = N + 1 THEN r ELSE rows[i]
          BY <1>0, <5>1
        <5> QED BY <5>2, <5>3 DEF a
      <4>3. \A i \in 1..N + 1 : (IF i = N + 1 THEN r ELSE rows[i]) = R(i)
        BY <1>0, <3>7
      <4> QED BY <4>2, <4>3
    <3>9. messages'[1] = messages[1]
      BY <2>1, <3>1
    <3> QED BY <3>4, <3>6, <3>8, <3>9 DEF R
  <2> QED BY <2>1, <2>2, <2>3 DEF TableInv
<1>2. CASE Click
  <2>1. messages' = messages /\ messages # <<>> /\ labels' = LabelsOf(messages)
        /\ rows' = RowsOf(messages, labels')
    BY <1>2 DEF Click, dataLabels
  <2>2. ASSUME Uniform(messages)
        PROVE  /\ labels' = NamesOf(messages[1])
               /\ rows' = [i \in 1..N |-> Row(i, messages[i], labels')]
    <3>1. labels' = NamesOf(messages[1])
      BY <2>1, <2>2, LabelsAre DEF TableInv
    <3>2. DOMAIN messages = 1..N /\ 1 \in 1..N
      BY <2>1 DEF TableInv
    <3>3. \A i \in DOMAIN messages : ~RowRaises(messages[i], labels')
      <4> SUFFICES ASSUME NEW i \in DOMAIN messages PROVE ~RowRaises(messages[i], labels')
        OBVIOUS
      <4>1. messages[i].data = messages[1].data
        BY <2>2, <3>2 DEF Uniform
      <4> QED BY <3>1, <4>1 DEF RowRaises, NamesOf
    <3>4. {i \in DOMAIN messages : RowRaises(messages[i], labels')} = {}
      BY <3>3
    <3>5. RowsOf(messages, labels') = [i \in 1..N |-> Row(i, messages[i], labels')]
      BY <3>4 DEF RowsOf
    <3> QED BY <2>1, <3>1, <3>5
  <2> QED BY <2>1, <2>2 DEF TableInv
<1>3. CASE CloseModal
  BY <1>3 DEF CloseModal, TableInv
<1>4. CASE UNCHANGED <<messages, modal, labels, rows>>
  BY <1>4 DEF TableInv
<1> QED BY <1>1, <1>2, <1>3, <1>4 DEF InspectorNext, ChangeShowTypes, inspectorVars, tableVars

(* The open table shows every value of a line whose values all have the    *)
(* same names, those that came after the click included, in order and      *)
(* under these names (addMessage, the click, dataLabels).                  *)
THEOREM InspectorTable == InspectorSpec => []TableComplete
<1>1. InspectorInit => TableInv BY DEF InspectorInit, TableInv
<1>2. TableInv /\ [InspectorNext]_inspectorVars => TableInv' BY TableInvStep
<1>3. TableInv => TableComplete
  <2> SUFFICES ASSUME TableInv, modal, \A m, k \in ToSet(messages) : m.data = k.data
               PROVE  rows = [i \in DOMAIN messages |-> Row(i, messages[i], dataLabels)]
    BY DEF TableComplete
  <2>1. DOMAIN messages = 1..Len(messages) /\ messages # <<>>
    BY DEF TableInv
  <2>2. Uniform(messages)
    <3> SUFFICES ASSUME NEW i \in 1..Len(messages), NEW k \in 1..Len(messages)
                 PROVE  messages[i].data = messages[k].data
      BY DEF Uniform
    <3>1. messages[i] \in ToSet(messages) /\ messages[k] \in ToSet(messages)
      BY <2>1 DEF ToSet
    <3> QED BY <3>1
  <2>3. dataLabels = NamesOf(messages[1])
    BY <2>1, <2>2, LabelsAre DEF TableInv, dataLabels
  <2> QED BY <2>1, <2>2, <2>3 DEF TableInv
<1> QED BY <1>1, <1>2, <1>3, PTL DEF InspectorSpec

=============================================================================
