---------------------------- MODULE MCChannelMutex ----------------------------
(***************************************************************************)
(* Channels and a mutex, without select: four fibers that run every choice *)
(* of short texts on one channel, buffered or not; on the mutex, with      *)
(* loops, recursion and unlocks without a lock; and fibers that guard a    *)
(* section with the mutex and talk over the channels, before it or inside. *)
(***************************************************************************)
EXTENDS ChannelMutex

CONSTANTS main, f1, f2, f3, loop, mu, a, u

MCFiber == {main, f1, f2, f3}
MCCapacity == [c \in {a} |-> 1]

sleep    == [op |-> "sleep"]
forever  == [op |-> "sleep forever"]
spawn(f) == [op |-> "spawn", fiber |-> f]
again(i) == [op |-> "goto", to |-> i]
lock     == [op |-> "lock", mutex |-> mu]
unlock   == [op |-> "unlock", mutex |-> mu]
On(op, c) == [op |-> op, ch |-> c]

Either(do) == [op |-> "select", else |-> FALSE,
               ops |-> <<[do |-> do, ch |-> a], [do |-> do, ch |-> u]>>]

ChannelCalls(c) == {On(op, c) : op \in {"send", "receive", "receive?", "close"}}

MCCall == {sleep, forever, lock, unlock, again(1), Either("receive")}
            \cup {spawn(f) : f \in {f1, f2, f3}} \cup ChannelCalls(a) \cup ChannelCalls(u)

Start == <<spawn(f1), spawn(f2), spawn(f3)>>

(* The programs in which the fibers take their texts from these sets.      *)
Texts(mains, xs, ys, zs) ==
  { [f \in MCFiber |->
       CASE f = main -> Start \o m [] f = f1 -> x [] f = f2 -> y [] f = f3 -> z] :
      m \in mains, x \in xs, y \in ys, z \in zs }

-----------------------------------------------------------------------------
(* One channel.                                                            *)
Twice(op, c) == <<On(op, c), On(op, c)>>

(* The main fiber waits forever in the end, so that everyone else is done, *)
(* or returns and ends the process.                                        *)
ChannelMains(c) ==
  {<<forever>>, <<sleep>>, <<On("send", c), On("receive", c), forever>>}

ChannelTexts(c) ==
  { <<On("receive", c)>>, Twice("send", c), Twice("receive", c),
    Twice("receive?", c), <<On("send", c), On("receive", c)>>,
    <<On("send", c), On("close", c)>>, <<sleep, On("send", c)>>,
    <<sleep, On("receive", c)>> }

LateTexts(c) ==
  { <<x>> : x \in ChannelCalls(c) } \cup
  { <<sleep, On("close", c)>>, Twice("send", c), Twice("receive", c) }

ChannelPrograms ==
  UNION { Texts(ChannelMains(c), ChannelTexts(c),
                ChannelTexts(c) \ {Twice("receive", c), <<sleep, On("receive", c)>>},
                LateTexts(c)) : c \in {a, u} }

-----------------------------------------------------------------------------
(* The mutex.                                                              *)
MutexMains == {<<forever>>, <<sleep, sleep>>, <<lock, sleep, unlock, forever>>}

MutexTexts ==
  { <<lock, sleep, unlock>>, <<lock, unlock, sleep, lock, unlock>>,
    <<lock, lock, sleep, unlock, sleep, unlock>>, <<unlock, lock, sleep, unlock>>,
    <<lock, sleep>>, <<lock, sleep, unlock, again(1)>>,
    <<lock, sleep, unlock, sleep, lock, lock, unlock, unlock>>, <<sleep, unlock>> }

MutexPrograms ==
  Texts(MutexMains, MutexTexts, MutexTexts \ {<<unlock, lock, sleep, unlock>>, <<lock, sleep>>},
        {<<unlock, lock, sleep, unlock>>, <<lock, sleep>>, <<sleep, lock, unlock, again(1)>>})

-----------------------------------------------------------------------------
(* Both: what a fiber gets or gives, before or inside its section.         *)
Talk == {On(op, c) : op \in {"send", "receive"}, c \in {a, u}}

Workers(talk) ==
  { <<x, lock, sleep, unlock>> : x \in talk } \cup
  { <<lock, x, unlock>> : x \in talk } \cup
  { <<lock, sleep, unlock, x>> : x \in talk }

TalkPrograms(talk) ==
  Texts({<<sleep, forever>>, <<On("send", a), lock, On("receive", u), unlock, forever>>},
        Workers(talk), Workers(talk),
        {<<On("send", a), On("send", u)>>, <<sleep, On("receive", a), On("receive", u)>>,
         <<lock, sleep, On("send", u), unlock>>})

MCPrograms == ChannelPrograms \cup MutexPrograms \cup TalkPrograms(Talk)

SelectPrograms == TalkPrograms(Talk \cup {Either("receive")})
=============================================================================
