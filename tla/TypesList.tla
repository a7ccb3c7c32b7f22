------------------------------ MODULE TypesList ------------------------------
(***************************************************************************)
(* The list of types beside the API documentation:                         *)
(* src/compiler/crystal/tools/doc/html/js/doc.js.  Types that contain      *)
(* others are opened and closed by clicks, remembered for the tab in       *)
(* sessionStorage; a search field hides what does not match, 200ms after   *)
(* the last key.  A text of the field is what its words match.             *)
(***************************************************************************)
EXTENDS Naturals

CONSTANTS
  Type,      \* the li elements of #types-list
  Above,     \* the li elements around each, the whole way up
  Text,      \* texts of the search field
  Blank,     \* the text without words
  Faulty,    \* the texts that are no regular expression
  Matches,   \* the types whose data-name a text matches
  Depth,     \* the largest scroll position
  None,      \* no item in sessionStorage
  MaxKeys    \* bound on the keys typed

VARIABLES
  current,   \* the type whose page this is
  open,      \* the elements of class open
  hidden,    \* the elements of class hide
  stored,    \* the data-ids with '1' in sessionStorage
  text,      \* searchInput.value
  timer,     \* searchTimeout is pending
  scroll,    \* typesList.scrollTop
  savedY,    \* the position in sessionStorage, None before the first
  storage,   \* the browser has a sessionStorage
  keys,      \* keys typed so far, in any page
  unheard,   \* history: the text changed without a keyup, and no search since
  searched   \* history: a search has run in this page

listVars == <<open, hidden>>
scrollVars == <<scroll, savedY>>
typesVars == <<current, open, hidden, stored, text, timer, scroll, savedY, storage,
               keys, unheard, searched>>

ASSUME TypesAssumption ==
  /\ Above \in [Type -> SUBSET Type]
  /\ \A t \in Type : t \notin Above[t] /\ \A a \in Above[t] : Above[a] \subseteq Above[t]
  /\ Matches \in [Text -> SUBSET Type]
  /\ Blank \in Text \ Faulty /\ Matches[Blank] = Type
  /\ MaxKeys \in Nat /\ Depth \in Nat /\ None \notin Nat

Parents == UNION {Above[t] : t \in Type}

ChildMatch(t, x) == \E u \in Matches[x] : t \in Above[u]

Wanted(x) == {t \in Type : t \in Matches[x] \/ ChildMatch(t, x)}

-----------------------------------------------------------------------------
(* Where the list is scrolled to at first.                                 *)
initialY == IF savedY = None THEN 0 ELSE savedY

(* A page is loaded: the template opens the types around its own, the      *)
(* script those stored; the browser may put an earlier text back.          *)
Load(c) ==
  /\ current' = c
  /\ open' = Above[c] \cup (stored \cap Parents)
  /\ hidden' = {}
  /\ text' \in {Blank, text}
  /\ unheard' = (text' # Blank)
  /\ timer' = FALSE
  /\ searched' = FALSE
  /\ scroll' = initialY
  /\ UNCHANGED <<stored, savedY, storage, keys>>

Visible(t) == /\ t \notin hidden
              /\ Above[t] \subseteq open \ hidden

(* Without a sessionStorage its stand-in keeps nothing.                    *)
Store(ids) == stored' = IF storage THEN ids ELSE stored

(* A faulty variant of Click: the key stays in sessionStorage when a type  *)
(* is closed.                                                              *)
ClickKeepsKey(t) ==
  /\ Visible(t)
  /\ t \in Parents \/ Above[t] # {}
  /\ IF t \in open THEN open' = open \ {t} /\ UNCHANGED stored
                   ELSE open' = open \cup {t} /\ Store(stored \cup {t})
  /\ UNCHANGED <<current, hidden, text, timer, scrollVars, storage, keys, unheard, searched>>

(* The listeners are on the parents and see the clicks on what is inside.  *)
Click(t) ==
  /\ Visible(t)
  /\ t \in Parents \/ Above[t] # {}
  /\ IF t \in open THEN open' = open \ {t} /\ Store(stored \ {t})
                   ELSE open' = open \cup {t} /\ Store(stored \cup {t})
  /\ UNCHANGED <<current, hidden, text, timer, scrollVars, storage, keys, unheard, searched>>

(* A faulty variant of KeyUp: a timer that has run once is taken for one   *)
(* that is pending.                                                        *)
KeyUpOnce(x) ==
  /\ keys < MaxKeys
  /\ keys' = keys + 1
  /\ text' = x
  /\ timer' = (timer \/ ~searched)
  /\ unheard' = FALSE
  /\ UNCHANGED <<current, listVars, stored, scrollVars, storage, searched>>

KeyUp(x) ==
  /\ keys < MaxKeys
  /\ keys' = keys + 1
  /\ text' = x
  /\ timer' = TRUE
  /\ unheard' = FALSE
  /\ UNCHANGED <<current, listVars, stored, scrollVars, storage, searched>>

(* The text is pasted or cleared with the mouse: no keyup.                 *)
Paste(x) ==
  /\ x # text
  /\ text' = x
  /\ unheard' = TRUE
  /\ UNCHANGED <<current, listVars, stored, timer, scrollVars, storage, keys, searched>>

(* A faulty variant of OpenAfter: childMatch looks at the children only,   *)
(* not at what is inside them.                                             *)
OpenAfterChildren(x) ==
  IF x = Blank THEN {}
  ELSE open \cup {t \in Parents :
                    \E u \in Matches[x] : /\ t \in Above[u]
                                         /\ \A a \in Above[u] : a \in Above[t] \cup {t}}

(* The opened types; a blank text closes them all.                         *)
OpenAfter(x) ==
  IF x = Blank THEN {} ELSE open \cup {t \in Parents : ChildMatch(t, x)}

(* new RegExp raises on a faulty text.                                     *)
SearchFails ==
  /\ timer /\ text \in Faulty
  /\ timer' = FALSE
  /\ UNCHANGED <<current, listVars, stored, text, scrollVars, storage, keys, unheard, searched>>

(* A faulty variant of Search: a search hides and does not show again.     *)
SearchOnlyHides ==
  /\ timer /\ text \notin Faulty
  /\ timer' = FALSE
  /\ hidden' = hidden \cup (Type \ Wanted(text))
  /\ open' = OpenAfter(text)
  /\ unheard' = FALSE
  /\ searched' = TRUE
  /\ UNCHANGED <<current, stored, text, scrollVars, storage, keys>>

Search ==
  /\ timer /\ text \notin Faulty
  /\ timer' = FALSE
  /\ hidden' = Type \ Wanted(text)
  /\ open' = OpenAfter(text)
  /\ unheard' = FALSE
  /\ searched' = TRUE
  /\ UNCHANGED <<current, stored, text, scrollVars, storage, keys>>

Scroll(y) ==
  /\ y # scroll
  /\ scroll' = y
  /\ savedY' = IF storage THEN y ELSE savedY
  /\ UNCHANGED <<current, listVars, stored, text, timer, storage, keys, unheard, searched>>

TypesInit ==
  /\ current \in Type
  /\ open = Above[current]
  /\ hidden = {} /\ stored = {}
  /\ text = Blank /\ timer = FALSE
  /\ scroll = 0 /\ savedY = None /\ storage \in BOOLEAN /\ keys = 0
  /\ unheard = FALSE /\ searched = FALSE

TypesNext ==
  \/ \E t \in Type : Load(t) \/ Click(t)
  \/ \E x \in Text : KeyUp(x) \/ Paste(x)
  \/ Search \/ SearchFails
  \/ \E y \in 0..Depth : Scroll(y)

TypesSpec == TypesInit /\ [][TypesNext]_typesVars

(* The browser runs an expired timer.                                      *)
FairTypesSpec == TypesSpec /\ WF_typesVars(Search \/ SearchFails)

-----------------------------------------------------------------------------
(* Every variable keeps its type.                                          *)
TypesTypeOK ==
  /\ current \in Type
  /\ open \subseteq Type /\ hidden \subseteq Type /\ stored \subseteq Type
  /\ text \in Text
  /\ timer \in BOOLEAN /\ unheard \in BOOLEAN /\ searched \in BOOLEAN
  /\ scroll \in 0..Depth /\ savedY \in 0..Depth \cup {None} /\ storage \in BOOLEAN
  /\ keys \in 0..MaxKeys

(* The list shows what the field asks for (the timer of the keyup          *)
(* listener): when no search is pending, exactly the types that match, or  *)
(* contain one that does, are shown, whatever was typed, loaded or         *)
(* searched before.  A text that came in without a key, and a text that is *)
(* no regular expression, are not claimed.                                 *)
ShowsWhatIsAsked ==
  ~timer /\ ~unheard /\ text \notin Faulty => hidden = Type \ Wanted(text)

(* A search leaves every match in sight (childMatch and the class open):   *)
(* shown, with everything around it shown and open, however the types were *)
(* opened, closed and hidden before.                                       *)
MatchesInSight ==
  [][Search /\ text # Blank => \A t \in Matches[text] : Visible(t)']_typesVars

(* A reload of the page brings back the types that the user opened and no  *)
(* others (sessionStorage against the class open), unless a search opened  *)
(* or closed some meanwhile; the template opens the types around its own.  *)
ReloadKeepsOpen ==
  [][Load(current) /\ storage /\ ~searched =>
       (open' \cap Parents) \ Above[current] = (open \cap Parents) \ Above[current]]_typesVars

(* Whoever stops typing sees the result (the timer is always set again).   *)
SearchSettles ==
  <>[](text \in Faulty \/ unheard \/ (~timer /\ hidden = Type \ Wanted(text)))

=============================================================================
