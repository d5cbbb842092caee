---------------------------- MODULE EzmlmBounce ----------------------------
(***************************************************************************)
(* How ezmlm drops an address whose mail bounces (ezmlm-0.53/              *)
(* ezmlm-return.c and ezmlm-warn.c), for one address.  A bounced message   *)
(* leaves bounce/d (once) and adds its number to bounce/h; a d of ten days *)
(* has a warning sent; a bounced warning leaves bounce/w; a w of ten days  *)
(* has a probe sent; a bounced probe unsubscribes the address.  Files of   *)
(* 35 days are removed unread.  Time is in units of the ten days (1000000  *)
(* seconds), and the age of a thing is 0 .. TooOld, whole units; TooOld    *)
(* stands for three or more (3000000 seconds).                             *)
(***************************************************************************)
EXTENDS Integers, FiniteSets

CONSTANT MaxBounceDeath   \* bound: deaths of a process in mid-work

ASSUME EzmlmBounceAssumption == MaxBounceDeath \in Nat

TooOld == 3
AgeOf == 0 .. TooOld
NoFile == -1

VARIABLES
  sub,      \* the address is subscribed
  d, w,     \* ages of the files bounce/d* and bounce/w* of the address
  h,        \* age of bounce/h, its list of message numbers, or NoFile
  warnings, probes,   \* ages of the warnings and probes sent to it
  busy,     \* lockbounce: "free" | "returned" | [file, age, did]: see below
  bounceDeaths,
  first     \* history: age of the first bounce ever, or NoFile

ebVars == <<sub, d, w, h, warnings, probes, busy, bounceDeaths, first>>

EzmlmBounceInit ==
  /\ sub = TRUE /\ d = {} /\ w = {} /\ h = NoFile
  /\ warnings = {} /\ probes = {} /\ busy = <<"free">> /\ bounceDeaths = 0
  /\ first = NoFile

FreeName == busy = <<"free">>

\* ezmlm-return for a distribution bounce.  With an h there is a d already (or
\* was), and the new one is thrown away; then the number goes to h.
ReturnBounce ==
  /\ FreeName /\ sub
  /\ d' = IF h = NoFile THEN d \union {0} ELSE d
  /\ busy' = <<"returned">>
  /\ first' = IF first = NoFile THEN 0 ELSE first
  /\ UNCHANGED <<sub, w, h, warnings, probes, bounceDeaths>>

ReturnNumber ==
  /\ busy = <<"returned">>
  /\ h' = 0 /\ busy' = <<"free">>
  /\ UNCHANGED <<sub, d, w, warnings, probes, bounceDeaths, first>>

\* ezmlm-return for a warning and for a probe whose cookie is not too old.
ReturnWarning ==
  /\ FreeName /\ sub
  /\ warnings \ {TooOld} # {}
  /\ w' = w \union {0}
  /\ UNCHANGED <<sub, d, h, warnings, probes, busy, bounceDeaths, first>>

ReturnProbe ==
  /\ probes \ {TooOld} # {}
  /\ sub' = FALSE
  /\ UNCHANGED <<d, w, h, warnings, probes, busy, bounceDeaths, first>>

\* ezmlm-warn at one file of bounce/.  A file of 35 days is unlinked; if it is
\* a d or a w, ezmlm-warn then cannot open it and dies there.
WarnRemove ==
  /\ FreeName
  /\ d' = d \ {TooOld} /\ w' = w \ {TooOld}
  /\ h' = IF h = TooOld THEN NoFile ELSE h
  /\ <<d, w, h>> # <<d', w', h'>>
  /\ UNCHANGED <<sub, warnings, probes, busy, bounceDeaths, first>>

DueAtOnce(age) == age \in {0, 1, 2}     \* mutant
Due(age) == age \in {1, 2}     \* older than ten days

\* A d or w that is due: nothing is sent to one who is no subscriber.
WarnNot ==
  /\ FreeName /\ ~sub
  /\ \E age \in d \union w : Due(age) /\ d' = d \ {age} /\ w' = w \ {age}
  /\ UNCHANGED <<sub, h, warnings, probes, busy, bounceDeaths, first>>

\* Otherwise the warning or the probe is queued, then h and d, or w, unlinked.
WarnSend ==
  /\ FreeName /\ sub
  /\ \/ \E age \in d : /\ Due(age) /\ busy' = <<"d", age>>
                       /\ warnings' = warnings \union {0}
                       /\ UNCHANGED probes
     \/ \E age \in w : /\ Due(age) /\ busy' = <<"w", age>>
                       /\ probes' = probes \union {0}
                       /\ UNCHANGED warnings
  /\ UNCHANGED <<sub, d, w, h, bounceDeaths, first>>

WarnUnlinkNumbers ==
  /\ busy[1] = "d" /\ h # NoFile
  /\ h' = NoFile
  /\ UNCHANGED <<sub, d, w, warnings, probes, busy, bounceDeaths, first>>

WarnUnlink ==
  /\ \/ /\ busy[1] = "d" /\ h = NoFile
        /\ d' = d \ {busy[2]} /\ UNCHANGED w
     \/ /\ busy[1] = "w"
        /\ w' = w \ {busy[2]} /\ UNCHANGED d
  /\ busy' = <<"free">>
  /\ UNCHANGED <<sub, h, warnings, probes, bounceDeaths, first>>

\* The process that holds lockbounce dies between two steps.
BounceDies ==
  /\ ~FreeName
  /\ bounceDeaths < MaxBounceDeath /\ bounceDeaths' = bounceDeaths + 1
  /\ busy' = <<"free">>
  /\ UNCHANGED <<sub, d, w, h, warnings, probes, first>>

\* ezmlm-manage, on the subscriber's request.
Subscribe ==
  /\ sub' = ~sub
  /\ UNCHANGED <<d, w, h, warnings, probes, busy, bounceDeaths, first>>

Older(age) == IF age \in {NoFile, TooOld} THEN age ELSE age + 1
DayPasses ==
  /\ FreeName
  /\ d' = {Older(age) : age \in d} /\ w' = {Older(age) : age \in w}
  /\ h' = Older(h) /\ first' = Older(first)
  /\ warnings' = {Older(age) : age \in warnings}
  /\ probes' = {Older(age) : age \in probes}
  /\ UNCHANGED <<sub, busy, bounceDeaths>>

Return == ReturnBounce \/ ReturnNumber \/ ReturnWarning \/ ReturnProbe
Warn   == WarnRemove \/ WarnNot \/ WarnSend \/ WarnUnlinkNumbers \/ WarnUnlink

EzmlmBounceNext == Return \/ Warn \/ BounceDies \/ Subscribe \/ DayPasses

EzmlmBounceSpec == EzmlmBounceInit /\ [][EzmlmBounceNext]_ebVars

(***************************************************************************)
(* Properties.                                                             *)
(***************************************************************************)
EzmlmBounceTypeOK ==
  /\ sub \in BOOLEAN /\ bounceDeaths \in 0 .. MaxBounceDeath
  /\ d \subseteq AgeOf /\ w \subseteq AgeOf /\ warnings \subseteq AgeOf /\ probes \subseteq AgeOf
  /\ h \in AgeOf \union {NoFile} /\ first \in AgeOf \union {NoFile}
  /\ busy \in {<<"free">>, <<"returned">>} \union ({"d", "w"} \X AgeOf)

\* A probe, whose bounce removes the address, goes out twenty days after the
\* first bounce at the earliest, whatever died and came back in between and
\* however often the address left and came back: probes wait for a warning to
\* bounce, and a warning for ten days.
TwentyDays == \A age \in probes : first = TooOld \/ first >= age + 2
=============================================================================
