--------------------------- MODULE TypesListProofs ---------------------------
(***************************************************************************)
(* For every tree of types, every text and every number of keys: a search  *)
(* shows what was asked for, and a reload what was open.                   *)
(***************************************************************************)
EXTENDS TypesList, TLAPS

LEMMA TypesConstants ==
  /\ Above \in [Type -> SUBSET Type]
  /\ Matches \in [Text -> SUBSET Type]
  /\ Blank \in Text \ Faulty /\ Matches[Blank] = Type
  /\ MaxKeys \in Nat /\ Depth \in Nat /\ None \notin Nat
BY TypesAssumption

LEMMA ParentsAreTypes == Parents \subseteq Type
BY TypesConstants DEF Parents

(* A blank text asks for everything.                                       *)
LEMMA BlankWantsAll == Wanted(Blank) = Type
BY TypesConstants DEF Wanted

-----------------------------------------------------------------------------
LEMMA TypesTypeInit == TypesInit => TypesTypeOK
<1> SUFFICES ASSUME TypesInit PROVE TypesTypeOK
  OBVIOUS
<1>1. current \in Type /\ open \subseteq Type
  BY TypesConstants DEF TypesInit
<1>2. text \in Text /\ keys \in 0..MaxKeys /\ scroll \in 0..Depth
  BY TypesConstants DEF TypesInit
<1> QED BY <1>1, <1>2 DEF TypesInit, TypesTypeOK

LEMMA TypesTypeStep == TypesTypeOK /\ [TypesNext]_typesVars => TypesTypeOK'
<1> SUFFICES ASSUME TypesTypeOK, [TypesNext]_typesVars PROVE TypesTypeOK'
  OBVIOUS
<1> USE TypesConstants, ParentsAreTypes DEF TypesTypeOK, listVars, scrollVars
<1>1. ASSUME NEW t \in Type, Load(t) PROVE TypesTypeOK'
  <2>1. open' \subseteq Type
    BY <1>1 DEF Load, initialY
  <2>2. scroll' \in 0..Depth /\ text' \in Text /\ unheard' \in BOOLEAN
    BY <1>1 DEF Load, initialY
  <2> QED BY <2>1, <2>2, <1>1 DEF Load
<1>2. ASSUME NEW t \in Type, Click(t) PROVE TypesTypeOK'
  BY <1>2 DEF Click, Store
<1>3. ASSUME NEW x \in Text, KeyUp(x) PROVE TypesTypeOK'
  <2>1. keys' \in 0..MaxKeys
    BY <1>3 DEF KeyUp
  <2> QED BY <2>1, <1>3 DEF KeyUp
<1>4. ASSUME NEW x \in Text, Paste(x) PROVE TypesTypeOK'
  BY <1>4 DEF Paste
<1>5. CASE Search
  <2>1. open' \subseteq Type /\ hidden' \subseteq Type
    BY <1>5 DEF Search, OpenAfter
  <2> QED BY <2>1, <1>5 DEF Search
<1>6. CASE SearchFails
  BY <1>6 DEF SearchFails
<1>7. ASSUME NEW y \in 0..Depth, Scroll(y) PROVE TypesTypeOK'
  BY <1>7 DEF Scroll
<1>8. CASE UNCHANGED typesVars
  BY <1>8 DEF typesVars
<1> QED BY <1>1, <1>2, <1>3, <1>4, <1>5, <1>6, <1>7, <1>8 DEF TypesNext

(* Every variable keeps its type, however many types, texts and keys       *)
(* there are.                                                              *)
THEOREM TypesListTypes == TypesSpec => []TypesTypeOK
<1>1. TypesInit => TypesTypeOK BY TypesTypeInit
<1>2. TypesTypeOK /\ [TypesNext]_typesVars => TypesTypeOK' BY TypesTypeStep
<1> QED BY <1>1, <1>2, PTL DEF TypesSpec

-----------------------------------------------------------------------------
LEMMA ShowsInit == TypesInit => ShowsWhatIsAsked
BY BlankWantsAll DEF TypesInit, ShowsWhatIsAsked

LEMMA ShowsStep == ShowsWhatIsAsked /\ [TypesNext]_typesVars => ShowsWhatIsAsked'
<1> SUFFICES ASSUME ShowsWhatIsAsked, [TypesNext]_typesVars,
                    ~timer', ~unheard', text' \notin Faulty
             PROVE  hidden' = Type \ Wanted(text')
  BY DEF ShowsWhatIsAsked, Wanted, ChildMatch
<1> USE DEF listVars, scrollVars
<1>1. ASSUME NEW t \in Type, Load(t) PROVE hidden' = Type \ Wanted(text')
  <2>1. text' = Blank /\ hidden' = {} BY <1>1 DEF Load, initialY
  <2> QED BY <2>1, BlankWantsAll
<1>2. ASSUME NEW t \in Type, Click(t) PROVE hidden' = Type \ Wanted(text')
  BY <1>2 DEF Click, ShowsWhatIsAsked
<1>3. ASSUME NEW x \in Text, KeyUp(x) PROVE hidden' = Type \ Wanted(text')
  BY <1>3 DEF KeyUp
<1>4. ASSUME NEW x \in Text, Paste(x) PROVE hidden' = Type \ Wanted(text')
  BY <1>4 DEF Paste
<1>5. CASE Search
  BY <1>5 DEF Search
<1>6. CASE SearchFails
  BY <1>6 DEF SearchFails
<1>7. ASSUME NEW y \in 0..Depth, Scroll(y) PROVE hidden' = Type \ Wanted(text')
  BY <1>7 DEF Scroll, ShowsWhatIsAsked
<1>8. CASE UNCHANGED typesVars
  BY <1>8 DEF typesVars, ShowsWhatIsAsked
<1> QED BY <1>1, <1>2, <1>3, <1>4, <1>5, <1>6, <1>7, <1>8 DEF TypesNext

(* Between searches exactly what the field asks for is shown: a text that  *)
(* comes in with a key hides nothing for good, and a page that is loaded   *)
(* starts with what its field says.                                        *)
THEOREM TypesListShows == TypesSpec => []ShowsWhatIsAsked
<1>1. TypesInit => ShowsWhatIsAsked BY ShowsInit
<1>2. ShowsWhatIsAsked /\ [TypesNext]_typesVars => ShowsWhatIsAsked' BY ShowsStep
<1> QED BY <1>1, <1>2, PTL DEF TypesSpec

-----------------------------------------------------------------------------
LEMMA SearchShows ==
  TypesTypeOK /\ Search /\ text # Blank => \A t \in Matches[text] : Visible(t)'
<1> SUFFICES ASSUME TypesTypeOK, Search, text # Blank, NEW t \in Matches[text]
             PROVE  t \notin hidden' /\ Above[t] \subseteq open' \ hidden'
  BY DEF Visible
<1>1. t \in Type /\ t \in Wanted(text)
  BY TypesConstants DEF TypesTypeOK, Wanted
<1>2. ASSUME NEW a \in Above[t] PROVE a \in Parents /\ a \in Type /\ ChildMatch(a, text)
  BY <1>1, TypesConstants DEF Parents, ChildMatch
<1>3. open' = open \cup {a \in Parents : ChildMatch(a, text)}
      /\ hidden' = Type \ Wanted(text)
  BY DEF Search, OpenAfter
<1> QED BY <1>1, <1>2, <1>3 DEF Wanted

(* Every search leaves every match in sight, however deep it is nested and *)
(* whatever was closed or hidden before.                                   *)
THEOREM TypesListInSight == TypesSpec => MatchesInSight
<1>1. TypesTypeOK /\ [TypesNext]_typesVars =>
        [Search /\ text # Blank => \A t \in Matches[text] : Visible(t)']_typesVars
  BY SearchShows
<1> QED BY <1>1, TypesListTypes, PTL DEF TypesSpec, MatchesInSight

-----------------------------------------------------------------------------
(* What is open and not around the page's own type is what is stored.      *)
OpenIsStored ==
  storage /\ ~searched =>
    (open \cap Parents) \ Above[current] = (stored \cap Parents) \ Above[current]

LEMMA OpenIsStoredInit == TypesInit => OpenIsStored
BY DEF TypesInit, OpenIsStored

LEMMA OpenIsStoredStep == OpenIsStored /\ [TypesNext]_typesVars => OpenIsStored'
<1> SUFFICES ASSUME OpenIsStored, [TypesNext]_typesVars, storage', ~searched'
             PROVE  (open' \cap Parents) \ Above[current']
                      = (stored' \cap Parents) \ Above[current']
  BY DEF OpenIsStored, Parents
<1> USE DEF listVars, scrollVars, OpenIsStored
<1>1. ASSUME NEW t \in Type, Load(t)
      PROVE  (open' \cap Parents) \ Above[current'] = (stored' \cap Parents) \ Above[current']
  BY <1>1 DEF Load, initialY
<1>2. ASSUME NEW t \in Type, Click(t)
      PROVE  (open' \cap Parents) \ Above[current'] = (stored' \cap Parents) \ Above[current']
  <2>1. CASE t \in open
    <3>1. open' = open \ {t} /\ stored' = stored \ {t} /\ current' = current
      BY <1>2, <2>1 DEF Click, Store
    <3> QED BY <3>1, <1>2 DEF Click
  <2>2. CASE t \notin open
    <3>1. open' = open \cup {t} /\ stored' = stored \cup {t} /\ current' = current
      BY <1>2, <2>2 DEF Click, Store
    <3> QED BY <3>1, <1>2 DEF Click
  <2> QED BY <2>1, <2>2
<1>3. ASSUME NEW x \in Text, KeyUp(x) \/ Paste(x)
      PROVE  (open' \cap Parents) \ Above[current'] = (stored' \cap Parents) \ Above[current']
  BY <1>3 DEF KeyUp, Paste
<1>4. CASE Search
  BY <1>4 DEF Search
<1>5. CASE SearchFails
  BY <1>5 DEF SearchFails
<1>6. ASSUME NEW y \in 0..Depth, Scroll(y)
      PROVE  (open' \cap Parents) \ Above[current'] = (stored' \cap Parents) \ Above[current']
  BY <1>6 DEF Scroll
<1>7. CASE UNCHANGED typesVars
  BY <1>7 DEF typesVars
<1> QED BY <1>1, <1>2, <1>3, <1>4, <1>5, <1>6, <1>7 DEF TypesNext

LEMMA LoadOpensStored ==
  OpenIsStored /\ Load(current) /\ storage /\ ~searched =>
    (open' \cap Parents) \ Above[current] = (open \cap Parents) \ Above[current]
BY DEF OpenIsStored, Load

(* A reload shows the same types open as before, as long as no search ran. *)
THEOREM TypesListReload == TypesSpec => ReloadKeepsOpen
<1>1. TypesInit => OpenIsStored BY OpenIsStoredInit
<1>2. OpenIsStored /\ [TypesNext]_typesVars => OpenIsStored' BY OpenIsStoredStep
<1>3. OpenIsStored /\ [TypesNext]_typesVars =>
        [Load(current) /\ storage /\ ~searched =>
           (open' \cap Parents) \ Above[current] = (open \cap Parents) \ Above[current]]_typesVars
  BY LoadOpensStored
<1> QED BY <1>1, <1>2, <1>3, PTL DEF TypesSpec, ReloadKeepsOpen

=============================================================================
