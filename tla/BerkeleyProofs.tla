--------------------------- MODULE BerkeleyProofs ---------------------------
(***************************************************************************)
(* The rounds of Berkeley's algorithm, for any clients, offsets, length of *)
(* a second and size of the table, and under every fault.                  *)
(***************************************************************************)
EXTENDS Berkeley, SequenceTheorems, WellFoundedInduction, TLAPS

\* Where the clocks are, and the seconds that they may show.
Clocks   == slowest..Highest
Earliest == Reading(slowest)
Latest   == Reading(Highest)
Times    == Earliest..Latest

\* The times to which a clock may be set.  A clock keeps its fraction when it
\* is set, which could take it ahead of the fastest one: but an average is
\* the last second of all only when every clock in it has shown that second.
Fits(o) ==
    {t \in Times : slowest + now <= t * Second /\ (t <= Reading(o) \/ t + 1 <= Latest)}

\* What is under way between the daemon and a client: nothing, an answer, a
\* request, a correction, or a request behind a correction that is unread.
Silent(c)     == toDaemon[c] = <<>> /\ toClient[c] = <<>>
Answered(c)   == toClient[c] = <<>> /\ \E t \in Times : toDaemon[c] = <<t>> /\ t <= Reading(coffset[c])
Asked(c)      == toDaemon[c] = <<>> /\ toClient[c] = <<Request>>
Corrected(c)  == toDaemon[c] = <<>> /\ \E t \in Fits(coffset[c]) : toClient[c] = <<SyncTo(t)>>
AskedAgain(c) == toDaemon[c] = <<>> /\ \E t \in Fits(coffset[c]) : toClient[c] = <<SyncTo(t), Request>>

Mail(c) == Silent(c) \/ Answered(c) \/ Asked(c) \/ Corrected(c) \/ AskedAgain(c)

\* Before it is accepted a client has no mail; who has left is not running.
LinkInv(c) ==
    /\ prog[c] = "off" => link[c] = "none"
    /\ link[c] \in {"none", "queued", "queuedfin"} => Silent(c)
    /\ link[c] \in {"queuedfin", "fin", "reset", "pipe"} => prog[c] = "ended"

\* The client of slot i has answered in this round and was not yet corrected.
Due(i) == (dpc \in {"ask", "wait"} /\ i < turn) \/ (dpc = "correct" /\ turn <= i)

\* The clock o is one of those in the sum, and then in the average.
Counted(o) ==
    /\ dpc \in {"ask", "wait"} => total <= (valid_times - 1) * Latest + Reading(o)
    /\ dpc = "correct" => total \in Fits(o)

\* c is the client of slot i.
Serves(i, c) == Active(i) /\ slot[i].socket = c

SlotInv(i) == Active(i) => slot[i].socket \in Clients /\ i <= client_count

\* The connection of slot i: only while its turn lasts is a request on it.
ConnInv(i, c) ==
    Serves(i, c) /\ Alive =>
        /\ link[c] \in {"up", "fin", "reset", "pipe"}
        /\ (dpc = "wait" /\ turn = i) \/ Silent(c) \/ Corrected(c)
        /\ Due(i) => Silent(c) /\ Counted(coffset[c])

\* No client has two slots.
OneSlotEach ==
    \A c \in Clients : \A i, k \in Indices : Serves(i, c) /\ Serves(k, c) => i = k

\* The sum of the times, and their number.
RoundInv ==
    /\ dpc \in {"ask", "wait"} =>
            /\ valid_times >= 1 /\ valid_times <= turn /\ turn <= client_count + 1
            /\ valid_times * Earliest <= total
    /\ dpc = "wait" => turn <= client_count /\ Active(turn)
    /\ dpc = "correct" => turn <= client_count + 1
    /\ Counted(offset)

\* The clock o was set to t since the last average, or would have been then.
Near(o, t) == t * Second <= o + now /\ o + now <= t * Second + (Second - 1) + age

\* The clocks differ by their fractions, and by the age of the average.
Apart(o, p) == LET apart == age + Second - 1 IN o - apart <= p /\ p <= o + apart

\* A client has read the correction that the daemon too has followed, or will
\* read it.
Follows(c) ==
    \/ NoClient \in unset
    \/ toClient[c] = <<>> /\ (c \in unset \/ Apart(coffset[c], offset))
    \/ \E u \in Int : toClient[c] = <<SyncTo(u)>> /\ Near(offset, u)

\* In the round, until the daemon sets its clock.
KeepsUp(c) ==
    \/ toClient[c] = <<>> /\ (c \in unset \/ Near(coffset[c], total))
    \/ toClient[c] = <<SyncTo(total)>>

AgreeInv ==
    /\ dpc = "sleep" => \A c \in synced : prog[c] # "ended" => Follows(c)
    /\ dpc = "correct" => \A i \in Indices, c \in Clients :
            i < turn /\ Corrects(i) /\ Serves(i, c) /\ prog[c] # "ended" => KeepsUp(c)

Slots == [socket : Clients \cup {NoClient}, active : BOOLEAN]

\* The types, but for the mail.
Types ==
    /\ slot \in [Indices -> Slots] /\ client_count \in 0..MaxClients
    /\ running \in BOOLEAN
    /\ dpc \in {"sleep", "ask", "wait", "correct", "ended", "closed", "killed"}
    /\ turn \in 1..(MaxClients + 1) /\ valid_times \in 0..(MaxClients + 1)
    /\ total \in Int /\ offset \in Clocks
    /\ prog \in [Clients -> {"off", "run", "ended"}]
    /\ coffset \in [Clients -> Clocks]
    /\ link \in [Clients -> Links]
    /\ toClient = [c \in Clients |-> toClient[c]] /\ toDaemon = [c \in Clients |-> toDaemon[c]]
    /\ synced \in SUBSET Clients /\ unset \in SUBSET (Clients \cup {NoClient})
    /\ now \in 0..MaxTime /\ age \in 0..now /\ slowest \in Int

Inv ==
    /\ Types /\ OneSlotEach /\ RoundInv /\ AgreeInv
    /\ \A c \in Clients : Mail(c) /\ LinkInv(c)
    /\ \A i \in Indices : SlotInv(i) /\ \A c \in Clients : ConnInv(i, c)

-----------------------------------------------------------------------------
\* Sequences of one and of two messages.
LEMMA Sequences1 ==
    /\ \A a : Append(<<>>, a) = <<a>>
    /\ \A a : Head(<<a>>) = a /\ Tail(<<a>>) = <<>> /\ Len(<<a>>) = 1 /\ <<a>> # <<>>
    /\ \A a, b : <<a>> = <<b>> => a = b
OBVIOUS

LEMMA Sequences2 ==
    /\ \A a, b : Head(<<a, b>>) = a /\ Tail(<<a, b>>) = <<b>> /\ Len(<<a, b>>) = 2 /\ <<a, b>> # <<>>
    /\ \A a, b, c : <<a>> # <<b, c>>
OBVIOUS

LEMMA AppendSecond ==
    ASSUME NEW a, NEW b
    PROVE  Append(<<a>>, b) = <<a, b>>
<1> DEFINE S == {a, b}
<1>1. a \in S /\ b \in S  OBVIOUS
<1> HIDE DEF S
<1>2. <<a>> \in Seq(S) /\ Append(<<a>>, b) \in Seq(S) /\ <<a, b>> \in Seq(S)  BY <1>1
<1>3. /\ Len(Append(<<a>>, b)) = 2 /\ Append(<<a>>, b)[1] = a /\ Append(<<a>>, b)[2] = b
  BY <1>1, <1>2
<1>4. Len(<<a, b>>) = 2 /\ <<a, b>>[1] = a /\ <<a, b>>[2] = b  OBVIOUS
<1>5. \A k \in 1..2 : k = 1 \/ k = 2  OBVIOUS
<1> QED  BY <1>2, <1>3, <1>4, <1>5, SeqEqual

\* Division by a positive number.
LEMMA Division ==
    ASSUME NEW x \in Int, NEW n \in Nat \ {0}
    PROVE  /\ x \div n \in Int /\ x % n \in 0..(n - 1)
           /\ x = (x \div n) * n + (x % n)
OBVIOUS

\* Multiples are in the order of the numbers.
LEMMA Multiples ==
    ASSUME NEW a \in Int, NEW b \in Int, NEW n \in Nat \ {0}
    PROVE  /\ a * n \in Int /\ b * n \in Int /\ (a + 1) * n = a * n + n
           /\ a <= b => a * n <= b * n
           /\ a * n < b * n + n => a <= b
<1>1. a <= b => a * n <= b * n  OBVIOUS
<1>2. ASSUME a * n < b * n + n  PROVE a <= b
  <2>1. SUFFICES ASSUME a >= b + 1 PROVE FALSE  OBVIOUS
  <2>2. a * n >= (b + 1) * n  BY <2>1
  <2>3. (b + 1) * n = b * n + n  OBVIOUS
  <2> QED  BY <1>2, <2>2, <2>3
<1>3. (a + 1) * n = a * n + n  OBVIOUS
<1> QED  BY <1>1, <1>2, <1>3

\* The quotient is the last number whose multiple is reached.
LEMMA Quotient ==
    ASSUME NEW x \in Int, NEW a \in Int, NEW n \in Nat \ {0}
    PROVE  a <= x \div n <=> a * n <= x
<1>1. PICK q \in Int, r \in 0..(n - 1) : q = x \div n /\ x = q * n + r  BY Division
<1>2. ASSUME a <= q  PROVE a * n <= x
  <2>1. a * n <= q * n /\ a * n \in Int /\ q * n \in Int  BY <1>2, Multiples
  <2> QED  BY <1>1, <2>1
<1>3. ASSUME a * n <= x  PROVE a <= q
  <2>1. a * n < q * n + n /\ a * n \in Int /\ q * n \in Int
    <3>1. a * n \in Int /\ q * n \in Int  OBVIOUS
    <3> QED  BY <1>1, <1>3, <3>1
  <2> QED  BY <2>1, Multiples
<1> QED  BY <1>1, <1>2, <1>3

LEMMA QuotientGrows ==
    ASSUME NEW x \in Int, NEW y \in Int, x <= y, NEW n \in Nat \ {0}
    PROVE  x \div n <= y \div n
<1>1. PICK q \in Int : q = x \div n  BY Division
<1>2. q * n <= x /\ q * n \in Int  BY <1>1, Quotient
<1>3. q * n <= y  BY <1>2
<1> QED  BY <1>1, <1>3, Quotient

LEMMA QuotientOfMultiple ==
    ASSUME NEW a \in Int, NEW n \in Nat \ {0}
    PROVE  (a * n) \div n = a
<1>1. PICK q \in Int, r \in 0..(n - 1) : q = (a * n) \div n /\ a * n = q * n + r
  <2>1. a * n \in Int  OBVIOUS
  <2> QED  BY <2>1, Division
<1>2. a * n < q * n + n /\ q * n < a * n + n
  <2>1. a * n \in Int /\ q * n \in Int  OBVIOUS
  <2> QED  BY <1>1, <2>1
<1>3. a <= q /\ q <= a  BY <1>2, Multiples
<1> QED  BY <1>1, <1>3

\* An average: between the bounds of what is in it, and the upper bound itself
\* only when the time r that is in it is the bound too.
LEMMA AverageFits ==
    ASSUME NEW n \in Nat \ {0}, NEW sum \in Int, NEW lo \in Int, NEW hi \in Int, NEW r \in Int,
           r <= hi, n * lo <= sum, sum <= (n - 1) * hi + r
    PROVE  LET a == sum \div n
           IN  a \in Int /\ lo <= a /\ a <= hi /\ (a <= r \/ a + 1 <= hi)
<1>1. PICK a \in Int : a = sum \div n /\ a * n <= sum
  <2>1. PICK a \in Int : a = sum \div n  BY Division
  <2>2. a * n <= sum  BY <2>1, Quotient
  <2> QED  BY <2>1, <2>2
<1>2. /\ n * lo = lo * n /\ lo * n \in Int /\ hi * n \in Int /\ a * n \in Int
      /\ (n - 1) * hi = hi * n - hi
  OBVIOUS
<1>3. lo <= a  BY <1>1, <1>2, Quotient
<1>4. sum <= hi * n - hi + r  BY <1>2
<1>5. a * n < hi * n + n  BY <1>1, <1>2, <1>4
<1>6. a <= hi  BY <1>5, Multiples
<1>7. ASSUME hi <= a  PROVE a <= r
  <2>1. a = hi  BY <1>6, <1>7
  <2> QED  BY <1>1, <1>2, <1>4, <2>1
<1> QED  BY <1>1, <1>3, <1>6, <1>7

\* A clock x that is set to t, and h the fastest one.
LEMMA SettingFits ==
    ASSUME NEW n \in Nat \ {0}, NEW x \in Int, NEW h \in Int, NEW t \in Int, x <= h,
           t <= x \div n \/ t + 1 <= h \div n
    PROVE  t * n + (x % n) <= h
<1>1. PICK q \in Int, f \in 0..(n - 1) : q = x \div n /\ f = x % n /\ x = q * n + f  BY Division
<1>2. t * n \in Int /\ q * n \in Int /\ (t + 1) * n = t * n + n  OBVIOUS
<1>3. CASE t <= q
  <2>1. t * n <= q * n  BY <1>3, Multiples
  <2> QED  BY <1>1, <1>2, <2>1
<1>4. CASE t + 1 <= h \div n
  <2>1. (t + 1) * n <= h  BY <1>4, Quotient
  <2> QED  BY <1>1, <1>2, <2>1
<1> QED  BY <1>1, <1>3, <1>4

\* One time more in a sum.
LEMMA SumOfTimes ==
    ASSUME NEW n \in Nat \ {0}, NEW sum \in Int, NEW t \in Int, NEW lo \in Int, NEW hi \in Int,
           lo <= t, t <= hi, n * lo <= sum
    PROVE  /\ (n + 1) * lo <= sum + t
           /\ \A r \in Int : sum <= (n - 1) * hi + r => sum + t <= ((n + 1) - 1) * hi + r
           /\ \A r, s \in Int : s <= hi /\ t <= r /\ sum <= (n - 1) * hi + s => sum + t <= ((n + 1) - 1) * hi + r
<1>1. /\ n * lo \in Int /\ (n - 1) * hi \in Int /\ (n + 1) * lo = n * lo + lo
      /\ ((n + 1) - 1) * hi = (n - 1) * hi + hi
  OBVIOUS
<1> QED  BY <1>1

\* A larger bound for more than one time.
LEMMA SumBelow ==
    ASSUME NEW n \in Nat \ {0}, NEW sum \in Int, NEW hi \in Int, NEW top \in Int, NEW r \in Int, NEW s \in Int,
           hi <= top, r <= s, sum <= (n - 1) * hi + r
    PROVE  sum <= (n - 1) * top + s
<1>1. (n - 1) * hi \in Int /\ (n - 1) * top \in Int /\ (n - 1) * hi <= (n - 1) * top  OBVIOUS
<1> QED  BY <1>1

-----------------------------------------------------------------------------
\* The slowest and the fastest clock are there.
LEMMA Bounds ==
    /\ Lowest \in Int /\ Highest \in Int
    /\ \A t \in Offsets : t \in Int /\ Lowest <= t /\ t <= Highest
    /\ 0 \in Offsets /\ \A c \in Clients : Start[c] \in Offsets
<1>1. PICK lo \in Offsets, hi \in Offsets : \A t \in Offsets : lo <= t /\ t <= hi
  BY BerkeleyAssumption
<1>2. Offsets \subseteq Int /\ 0 \in Offsets /\ \A c \in Clients : Start[c] \in Offsets
  BY BerkeleyAssumption DEF Offsets
<1>3. /\ Lowest \in Offsets /\ \A t \in Offsets : Lowest <= t
  BY <1>1 DEF Lowest
<1>4. \A t \in Offsets : hi >= t  BY <1>1, <1>2
<1>5. /\ Highest \in Offsets /\ \A t \in Offsets : Highest >= t
  BY <1>4 DEF Highest
<1> QED  BY <1>2, <1>3, <1>5

\* The numbers of the clocks.
LEMMA Time ==
    ASSUME Types
    PROVE  /\ now \in Nat /\ age \in Nat /\ slowest \in Int /\ Highest \in Int /\ Second \in Nat \ {0}
           /\ \A o \in Clocks : o \in Int /\ slowest <= o /\ o <= Highest
BY Bounds, BerkeleyAssumption DEF Types, Clocks

\* What a clock shows is a time between the bounds.
LEMMA TimesDef ==
    ASSUME Types
    PROVE  /\ Earliest \in Int /\ Latest \in Int
           /\ \A t : t \in Times <=> t \in Int /\ Earliest <= t /\ t <= Latest
           /\ \A o \in Clocks : Reading(o) \in Times
<1>1. \A o \in Int : Reading(o) \in Int
  <2> SUFFICES ASSUME NEW o \in Int PROVE Reading(o) \in Int  OBVIOUS
  <2>1. o + now \in Int /\ Second \in Nat \ {0}  BY Time
  <2> QED  BY <2>1, Division DEF Reading
<1>2. Earliest \in Int /\ Latest \in Int  BY <1>1, Time DEF Earliest, Latest
<1>3. ASSUME NEW o \in Clocks  PROVE Earliest <= Reading(o) /\ Reading(o) <= Latest
  <2>1. /\ o + now \in Int /\ slowest + now \in Int /\ Highest + now \in Int /\ Second \in Nat \ {0}
        /\ slowest + now <= o + now /\ o + now <= Highest + now
    BY <1>3, Time
  <2>2. /\ (slowest + now) \div Second <= (o + now) \div Second
        /\ (o + now) \div Second <= (Highest + now) \div Second
    BY <2>1, QuotientGrows
  <2> QED  BY <2>2 DEF Reading, Earliest, Latest
<1> QED  BY <1>1, <1>2, <1>3, Time DEF Times

\* A clock that is set to a time that fits is between the bounds, and shows
\* that time.
LEMMA SetFits ==
    ASSUME Types, NEW o \in Clocks, NEW t \in Fits(o)
    PROVE  /\ Set(o, t) \in Clocks
           /\ t * Second <= Set(o, t) + now /\ Set(o, t) + now <= t * Second + (Second - 1)
<1>1. /\ o \in Int /\ o + now \in Int /\ Highest + now \in Int /\ Second \in Nat \ {0} /\ now \in Int
      /\ o + now <= Highest + now /\ slowest \in Int /\ Highest \in Int
  BY Time
<1>2. t \in Int  BY TimesDef DEF Fits
<1>3. PICK f \in 0..(Second - 1) : f = (o + now) % Second  BY <1>1, Division
<1>4. t * Second \in Int /\ slowest + now <= t * Second  BY <1>1, <1>2 DEF Fits
<1>5. t <= (o + now) \div Second \/ t + 1 <= (Highest + now) \div Second
  BY DEF Fits, Reading, Latest
<1>6. t * Second + f <= Highest + now  BY <1>1, <1>2, <1>3, <1>5, SettingFits
<1>7. Set(o, t) = t * Second + f - now  BY <1>3 DEF Set
<1>8. f \in Int /\ 0 <= f /\ f <= Second - 1  BY <1>1, <1>3
<1> QED  BY <1>1, <1>4, <1>6, <1>7, <1>8 DEF Clocks

\* Nobody is connected.
LEMMA InitInv == Init => Inv
<1> SUFFICES ASSUME Init PROVE Inv  OBVIOUS
<1>1. Offsets \subseteq Clocks /\ slowest \in Int  BY Bounds DEF Init, Clocks
<1>2. Types
  <2>1. coffset \in [Clients -> Clocks] /\ offset \in Clocks  BY <1>1, Bounds, BerkeleyAssumption DEF Init
  <2>2. slot \in [Indices -> Slots]  BY DEF Init, Slots
  <2>3. 1 \in 1..(MaxClients + 1) /\ 0 \in 0..(MaxClients + 1) /\ 0 \in 0..MaxClients /\ 0 \in 0..MaxTime /\ 0 \in 0..0
    BY BerkeleyAssumption
  <2>4. toClient = [c \in Clients |-> toClient[c]] /\ toDaemon = [c \in Clients |-> toDaemon[c]]
    BY DEF Init
  <2>5. link \in [Clients -> Links]  BY DEF Init, Links
  <2>6. /\ client_count = 0 /\ running = TRUE /\ dpc = "sleep" /\ turn = 1 /\ total = 0
        /\ valid_times = 0 /\ synced = {} /\ unset = {} /\ prog \in [Clients -> {"off", "run", "ended"}]
        /\ now = 0 /\ age = 0
    BY DEF Init
  <2> QED  BY <1>1, <2>1, <2>2, <2>3, <2>4, <2>5, <2>6 DEF Types
<1>3. \A i \in Indices : ~Active(i)  BY DEF Init, Active
<1>4. \A c \in Clients : Silent(c) /\ prog[c] = "off" /\ link[c] = "none"  BY DEF Init, Silent
<1>5. dpc = "sleep" /\ synced = {}  BY DEF Init
<1> QED  BY <1>2, <1>3, <1>4, <1>5 DEF Inv, OneSlotEach, RoundInv, AgreeInv, Mail, LinkInv,
     SlotInv, ConnInv, Serves, Counted

-----------------------------------------------------------------------------
(***************************************************************************)
(* The bounds are as wide as before, or wider.                             *)
(***************************************************************************)
Looser ==
    /\ now' \in Nat /\ now <= now' /\ slowest' \in Int /\ slowest' <= slowest
    /\ slowest' + now' <= slowest + now

LEMMA StillLooser ==
    ASSUME Types, UNCHANGED <<now, slowest>>
    PROVE  Looser
BY Time DEF Looser

LEMMA LooserTimes ==
    ASSUME Types, Looser
    PROVE  /\ Highest' = Highest /\ Earliest' \in Int /\ Latest' \in Int
           /\ Earliest' <= Earliest /\ Latest <= Latest' /\ Times \subseteq Times' /\ Clocks \subseteq Clocks'
           /\ \A o \in Clocks : Reading(o)' \in Int /\ Reading(o) <= Reading(o)'
           /\ \A o \in Clocks : Fits(o) \subseteq Fits(o)'
<1>1. /\ now \in Int /\ slowest \in Int /\ Highest \in Int /\ Second \in Nat \ {0}
      /\ now' \in Int /\ slowest' \in Int /\ now <= now' /\ slowest' <= slowest
      /\ slowest' + now' <= slowest + now
  BY Time DEF Looser
<1>2. \A o \in Clocks : o \in Int /\ slowest <= o /\ o <= Highest  BY Time
<1>3. \A a, b, x \in Int : a <= b => x + a \in Int /\ x + b \in Int /\ x + a <= x + b  OBVIOUS
<1>4. \A a, b, x \in Int : a <= b /\ b <= x => a <= x  OBVIOUS
<1>5. Highest' = Highest  BY DEF Highest
<1>6. \A o \in Int : Reading(o)' \in Int /\ Reading(o) \in Int /\ Reading(o) <= Reading(o)'
  <2> SUFFICES ASSUME NEW o \in Int
               PROVE  Reading(o)' \in Int /\ Reading(o) \in Int /\ Reading(o) <= Reading(o)'
    OBVIOUS
  <2>1. o + now \in Int /\ o + now' \in Int /\ o + now <= o + now'  BY <1>1, <1>3
  <2>2. /\ (o + now) \div Second <= (o + now') \div Second
        /\ (o + now) \div Second \in Int /\ (o + now') \div Second \in Int
    BY <1>1, <2>1, QuotientGrows, Division
  <2> QED  BY <2>2 DEF Reading
<1>7. Earliest' \in Int /\ Earliest' <= Earliest
  <2>1. slowest' + now' \in Int /\ slowest + now \in Int  BY <1>1
  <2>2. /\ (slowest' + now') \div Second <= (slowest + now) \div Second
        /\ (slowest' + now') \div Second \in Int
    BY <1>1, <2>1, QuotientGrows, Division
  <2> QED  BY <2>2 DEF Earliest, Reading
<1>8. Latest' \in Int /\ Latest <= Latest'
  <2>1. Latest' = (Highest + now') \div Second  BY <1>5 DEF Latest, Reading
  <2>2. Latest = (Highest + now) \div Second  BY DEF Latest, Reading
  <2>3. Highest + now' \in Int /\ Highest + now \in Int /\ Highest + now <= Highest + now'  BY <1>1, <1>3
  <2> QED  BY <1>1, <2>1, <2>2, <2>3, QuotientGrows, Division
<1>9. \A t \in Times : t \in Int /\ t \in Times'
  <2>1. Times' = Earliest'..Latest'  BY DEF Times
  <2> QED  BY <1>7, <1>8, <2>1, TimesDef
<1>10. Clocks \subseteq Clocks'
  <2>1. Clocks' = slowest'..Highest'  BY DEF Clocks
  <2> QED  BY <1>2, <1>1, <1>5, <2>1
<1>11. ASSUME NEW o \in Clocks, NEW t \in Fits(o)  PROVE t \in Fits(o)'
  <2>1. /\ t \in Times /\ slowest + now <= t * Second /\ (t <= Reading(o) \/ t + 1 <= Latest)
    BY <1>11 DEF Fits
  <2>2. t \in Int /\ t \in Times' /\ t * Second \in Int  BY <1>1, <1>9, <2>1
  <2>3. slowest' + now' <= t * Second  BY <1>1, <1>3, <1>4, <2>1, <2>2
  <2>4. t <= Reading(o)' \/ t + 1 <= Latest'  BY <1>2, <1>6, <1>8, <2>1, <2>2, TimesDef
  <2> QED  BY <2>2, <2>3, <2>4 DEF Fits
<1> QED  BY <1>2, <1>5, <1>6, <1>7, <1>8, <1>9, <1>10, <1>11

\* What a step leaves alone of a client.
SameMail(c) ==
    /\ toClient'[c] = toClient[c] /\ toDaemon'[c] = toDaemon[c] /\ coffset'[c] = coffset[c]
    /\ Looser

LEMMA MailKept ==
    ASSUME Types, NEW c \in Clients, SameMail(c)
    PROVE  /\ Silent(c) => Silent(c)'
           /\ Corrected(c) => Corrected(c)'
           /\ Mail(c) => Mail(c)'
<1>1. PICK o \in Clocks : o = coffset[c] /\ o = coffset'[c]  BY DEF Types, SameMail
<1>2. /\ toClient'[c] = toClient[c] /\ toDaemon'[c] = toDaemon[c] /\ Looser  BY DEF SameMail
<1>3. /\ Times \subseteq Times' /\ Fits(o) \subseteq Fits(o)' /\ Reading(o) <= Reading(o)'
      /\ Reading(o) \in Int /\ Reading(o)' \in Int /\ \A t \in Times : t \in Int
  BY <1>2, LooserTimes, TimesDef
<1>4. Silent(c) => Silent(c)'  BY <1>2 DEF Silent
<1>5. Asked(c) => Asked(c)'  BY <1>2 DEF Asked, Request
<1>6. Corrected(c) => Corrected(c)'
  <2>1. Corrected(c) <=> toDaemon[c] = <<>> /\ \E t \in Fits(o) : toClient[c] = <<SyncTo(t)>>
    BY <1>1 DEF Corrected
  <2>2. Corrected(c)' <=> toDaemon'[c] = <<>> /\ \E t \in Fits(o)' : toClient'[c] = <<SyncTo(t)>>
    BY <1>1 DEF Corrected, SyncTo, Fits, Reading
  <2> QED  BY <1>2, <1>3, <2>1, <2>2
<1>7. AskedAgain(c) => AskedAgain(c)'
  <2>1. AskedAgain(c) <=> toDaemon[c] = <<>> /\ \E t \in Fits(o) : toClient[c] = <<SyncTo(t), Request>>
    BY <1>1 DEF AskedAgain
  <2>2. AskedAgain(c)' <=> toDaemon'[c] = <<>> /\ \E t \in Fits(o)' : toClient'[c] = <<SyncTo(t), Request>>
    BY <1>1 DEF AskedAgain, SyncTo, Fits, Reading, Request
  <2> QED  BY <1>2, <1>3, <2>1, <2>2
<1>8. Answered(c) => Answered(c)'
  <2>1. Answered(c) <=> toClient[c] = <<>> /\ \E t \in Times : toDaemon[c] = <<t>> /\ t <= Reading(o)
    BY <1>1 DEF Answered
  <2>2. Answered(c)' <=> toClient'[c] = <<>> /\ \E t \in Times' : toDaemon'[c] = <<t>> /\ t <= Reading(o)'
    BY <1>1 DEF Answered, Reading
  <2>3. \A t \in Times : t <= Reading(o) => t \in Times' /\ t <= Reading(o)'  BY <1>3
  <2> QED  BY <1>2, <2>1, <2>2, <2>3
<1> QED  BY <1>4, <1>5, <1>6, <1>7, <1>8 DEF Mail

LEMMA LinkKept ==
    ASSUME Types, NEW c \in Clients, LinkInv(c), SameMail(c), prog'[c] = prog[c], link'[c] = link[c]
    PROVE  LinkInv(c)'
BY MailKept DEF LinkInv

LEMMA SlotKept ==
    ASSUME NEW i \in Indices, SlotInv(i), slot'[i] = slot[i], i <= client_count => i <= client_count'
    PROVE  SlotInv(i)' /\ (Active(i)' <=> Active(i)) /\ \A c : Serves(i, c)' <=> Serves(i, c)
BY DEF SlotInv, Active, Serves

LEMMA ConnKept ==
    ASSUME Types, NEW i \in Indices, NEW c \in Clients, ConnInv(i, c),
           Serves(i, c)' /\ Alive' =>
                /\ Serves(i, c) /\ Alive /\ link'[c] = link[c] /\ SameMail(c)
                /\ Due(i)' => Due(i) /\ (Counted(coffset[c]) => Counted(coffset[c])')
                /\ dpc = "wait" /\ turn = i => dpc' = "wait" /\ turn' = i
    PROVE  ConnInv(i, c)'
BY MailKept DEF ConnInv

\* A clock that is in the sum stays there.
LEMMA CountedKept ==
    ASSUME NEW c \in Clients, coffset'[c] = coffset[c], coffset[c] \in Clocks,
           \A o \in Clocks : Counted(o) => Counted(o)'
    PROVE  Counted(coffset[c]) => Counted(coffset[c])'
<1>1. PICK o \in Clocks : o = coffset[c] /\ o = coffset'[c]  OBVIOUS
<1>2. Counted(o) => Counted(o)'  OBVIOUS
<1> QED  BY <1>1, <1>2 DEF Counted, Fits, Reading

LEMMA SumKept ==
    ASSUME UNCHANGED <<total, valid_times, now, slowest>>,
           dpc' = dpc \/ (dpc \in {"ask", "wait"} /\ dpc' \in {"ask", "wait"})
    PROVE  \A o \in Clocks : Counted(o) => Counted(o)'
BY DEF Counted, Fits, Reading, Times, Earliest, Latest, Highest

\* The slots are the same.
LEMMA SlotsKept ==
    ASSUME Inv, UNCHANGED tableVars
    PROVE  /\ \A i \in Indices : SlotInv(i)' /\ (Active(i)' <=> Active(i))
           /\ \A i \in Indices : \A c : Serves(i, c)' <=> Serves(i, c)
           /\ OneSlotEach'
<1>1. \A i \in Indices : SlotInv(i) /\ slot'[i] = slot[i]  BY DEF Inv, tableVars
<1>2. client_count' = client_count  BY DEF tableVars
<1>3. \A i \in Indices : SlotInv(i)' /\ (Active(i)' <=> Active(i)) /\ \A c : Serves(i, c)' <=> Serves(i, c)
  BY <1>1, <1>2, SlotKept
<1> QED  BY <1>3 DEF Inv, OneSlotEach

(***************************************************************************)
(* The steps of the synchronisation thread in which it neither sends nor   *)
(* receives.                                                               *)
(***************************************************************************)
LEMMA DaemonThinks ==
    ASSUME Inv, UNCHANGED <<tableVars, running, clientVars, linkVars, now>>,
           Looser, age' \in 0..now, unset' \in SUBSET (Clients \cup {NoClient}),
           dpc' \in {"sleep", "ask", "correct", "ended"}, dpc \in {"sleep", "ask", "correct"},
           turn' \in 1..(MaxClients + 1), valid_times' \in 0..(MaxClients + 1),
           total' \in Int, offset' \in Clocks, synced' \in SUBSET Clients,
           \A i \in Indices : Active(i) /\ Due(i)' => Due(i) /\ \A o \in Clocks : Counted(o) => Counted(o)',
           RoundInv', AgreeInv'
    PROVE  Inv'
<1>1. /\ UNCHANGED <<slot, client_count, prog, coffset, link, toClient, toDaemon, now, running>>
  BY DEF tableVars, clientVars, linkVars
<1>2. Types /\ Clocks \subseteq Clocks' /\ slowest' \in Int  BY LooserTimes DEF Inv, Looser
<1>3. Types'  BY <1>1, <1>2 DEF Types
<1>4. \A c \in Clients : SameMail(c) /\ prog'[c] = prog[c] /\ link'[c] = link[c]
  BY <1>1 DEF SameMail
<1>5. \A c \in Clients : Mail(c)' /\ LinkInv(c)'  BY <1>2, <1>4, MailKept, LinkKept DEF Inv
<1>6. ASSUME NEW i \in Indices, NEW c \in Clients  PROVE ConnInv(i, c)'
  <2>1. ConnInv(i, c) /\ SameMail(c) /\ link'[c] = link[c]  BY <1>4 DEF Inv
  <2>2. Alive /\ dpc # "wait"  BY DEF Alive
  <2>3. Serves(i, c)' <=> Serves(i, c)  BY <1>1, SlotsKept DEF tableVars
  <2>4. coffset[c] \in Clocks /\ coffset'[c] = coffset[c]  BY <1>1, <1>2 DEF Types
  <2>5. Serves(i, c) /\ Due(i)' => Due(i) /\ (Counted(coffset[c]) => Counted(coffset[c])')
    BY <2>4, CountedKept DEF Serves
  <2> QED  BY <1>2, <2>1, <2>2, <2>3, <2>5, ConnKept
<1> QED  BY <1>1, <1>3, <1>5, <1>6, SlotsKept DEF Inv, tableVars

\* A set of numbers that is not empty has a least one.
LEMMA NatHasLeast ==
    ASSUME NEW S \in SUBSET Nat, S # {}
    PROVE  \E k \in S : \A m \in S : k <= m
<1>1. PICK n \in S : TRUE  OBVIOUS
<1> DEFINE R == OpToRel(<, Nat)
<1>2. IsWellFoundedOn(R, Nat)  BY NatLessThanWellFounded
<1>3. PICK k \in S : \A m \in S : ~(<<m, k>> \in R)  BY <1>2, WFMin
<1>4. \A m \in S : ~(m < k)  BY <1>3 DEF OpToRel
<1> QED  BY <1>4

\* The types that the arithmetic needs.
LEMMA Counters ==
    ASSUME Inv
    PROVE  /\ client_count \in Nat /\ client_count <= MaxClients /\ MaxClients \in Nat
           /\ turn \in Nat /\ turn >= 1 /\ turn <= MaxClients + 1
           /\ valid_times \in Nat /\ valid_times <= MaxClients + 1
           /\ total \in Int /\ offset \in Int /\ now \in Nat /\ age \in Nat
           /\ \A c \in Clients : coffset[c] \in Int /\ coffset[c] \in Clocks
<1>1. Types  BY DEF Inv
<1>2. /\ client_count \in 0..MaxClients /\ turn \in 1..(MaxClients + 1)
      /\ valid_times \in 0..(MaxClients + 1) /\ total \in Int /\ offset \in Clocks
      /\ \A c \in Clients : coffset[c] \in Clocks
  BY <1>1 DEF Types
<1>3. now \in Nat /\ age \in Nat /\ \A o \in Clocks : o \in Int  BY <1>1, Time
<1> QED  BY <1>2, <1>3, BerkeleyAssumption

LEMMA FollowsKept ==
    ASSUME NEW c, SameMail(c), UNCHANGED <<offset, now, age>>,
           c \in unset' <=> c \in unset, NoClient \in unset' <=> NoClient \in unset
    PROVE  Follows(c)' <=> Follows(c)
BY DEF SameMail, Follows, Near, Apart, SyncTo

LEMMA KeepsUpKept ==
    ASSUME NEW c, SameMail(c), UNCHANGED <<total, now, age>>, c \in unset' <=> c \in unset
    PROVE  KeepsUp(c)' <=> KeepsUp(c)
BY DEF SameMail, KeepsUp, Near, SyncTo

\* The interval is over, and nobody is there.
LEMMA WakeUpAloneInv == ASSUME Inv, WakeUpAlone PROVE Inv'
<1>1. /\ UNCHANGED <<tableVars, running, clientVars, linkVars, now, age, slowest, unset>>
      /\ UNCHANGED <<turn, total, valid_times, offset, synced, coffset, prog, toClient, toDaemon>>
      /\ dpc = "sleep" /\ dpc' \in {"sleep", "ended"}
  BY DEF WakeUpAlone, Sleep, clientVars, linkVars, timeVars
<1>2. RoundInv' /\ \A i \in Indices : ~Due(i)'  BY <1>1 DEF RoundInv, Due, Counted
<1>3. Types /\ Looser  BY <1>1, StillLooser DEF Inv
<1>4. AgreeInv'
  <2>1. \A c \in synced : prog[c] # "ended" => Follows(c)  BY <1>1 DEF Inv, AgreeInv
  <2>2. \A c : Follows(c)' <=> Follows(c)  BY <1>1, <1>3, FollowsKept DEF SameMail
  <2> QED  BY <1>1, <2>1, <2>2 DEF AgreeInv
<1>5. /\ turn \in 1..(MaxClients + 1) /\ valid_times \in 0..(MaxClients + 1) /\ age \in 0..now
      /\ total \in Int /\ offset \in Clocks /\ synced \in SUBSET Clients
      /\ unset \in SUBSET (Clients \cup {NoClient})
  BY <1>3 DEF Types
<1> QED  BY <1>1, <1>2, <1>3, <1>4, <1>5, DaemonThinks

\* A round begins with the daemon's own time.
LEMMA WakeUpInv == ASSUME Inv, WakeUp PROVE Inv'
<1>1. /\ UNCHANGED <<tableVars, running, clientVars, linkVars, now, age, slowest, offset, client_count>>
      /\ dpc = "sleep" /\ dpc' = "ask" /\ turn' = 1 /\ total' = Reading(offset) /\ valid_times' = 1
      /\ synced' = {} /\ unset' = {}
  BY DEF WakeUp, tableVars, timeVars
<1>2. \A i \in Indices : ~Due(i)'  BY <1>1 DEF Due, Indices
<1>3. AgreeInv'  BY <1>1 DEF AgreeInv
<1>4. Types /\ Looser  BY <1>1, StillLooser DEF Inv
<1>5. PICK o \in Clocks, t \in Times : o = offset /\ t = Reading(o)
  BY <1>4, TimesDef DEF Types
<1>6. t \in Int /\ Earliest <= t /\ Latest \in Int /\ Earliest \in Int /\ 1 <= client_count + 1
  BY <1>4, TimesDef, Counters
<1>7. RoundInv'
  <2>1. Earliest' = Earliest /\ Latest' = Latest /\ Reading(offset)' = t
    BY <1>1, <1>5 DEF Earliest, Latest, Reading, Highest
  <2>2. 1 * Earliest <= t /\ t <= (1 - 1) * Latest + t  BY <1>6
  <2>3. total' = t  BY <1>1, <1>5
  <2> QED  BY <1>1, <1>6, <2>1, <2>2, <2>3 DEF RoundInv, Counted
<1>8. 1 \in 1..(MaxClients + 1) /\ 1 \in 0..(MaxClients + 1)  BY BerkeleyAssumption
<1>9. age \in 0..now /\ offset \in Clocks /\ total' \in Int  BY <1>1, <1>4, <1>5, <1>6 DEF Types
<1> QED  BY <1>1, <1>2, <1>3, <1>4, <1>7, <1>8, <1>9, DaemonThinks

\* All have been asked: the average fits every clock that is in it.
LEMMA AverageInv == ASSUME Inv, Average PROVE Inv'
<1>1. /\ UNCHANGED <<tableVars, running, clientVars, linkVars, now, offset, synced, unset, valid_times, client_count>>
      /\ dpc = "ask" /\ turn > client_count /\ dpc' = "correct" /\ turn' = 1
      /\ total' = total \div valid_times /\ age' = 0 /\ slowest' = Earliest * Second - now
  BY DEF Average, average_time, tableVars, Earliest
<1>2. /\ Types /\ valid_times \in Nat \ {0} /\ total \in Int /\ Counted(offset)
      /\ valid_times * Earliest <= total /\ now \in Int /\ slowest \in Int /\ Second \in Nat \ {0}
      /\ Earliest \in Int /\ Latest \in Int /\ Earliest * Second \in Int
  BY <1>1, Counters, Time, TimesDef DEF Inv, RoundInv
<1>3. slowest' \in Int /\ slowest' + now = Earliest * Second  BY <1>1, <1>2
<1>4. Earliest * Second <= slowest + now
  <2>1. slowest + now \in Int  BY <1>2
  <2> QED  BY <1>2, <2>1, Quotient DEF Earliest, Reading
<1>5. Looser /\ Highest' = Highest
  <2>1. slowest' <= slowest
    <3>1. \A a, b, w, k \in Int : a + w = k /\ k <= b + w => a <= b  OBVIOUS
    <3> QED  BY <1>2, <1>3, <1>4, <3>1
  <2> QED  BY <1>1, <1>2, <1>3, <1>4, <2>1, Time DEF Looser, Highest
<1>6. Earliest' = Earliest /\ Latest' = Latest
  <2>1. (Earliest * Second) \div Second = Earliest  BY <1>2, QuotientOfMultiple
  <2>2. Earliest' = (slowest' + now) \div Second  BY <1>1 DEF Earliest, Reading
  <2> QED  BY <1>1, <1>3, <1>5, <2>1, <2>2 DEF Latest, Reading
<1>7. ASSUME NEW o \in Clocks, Counted(o)  PROVE Counted(o)'
  <2>1. PICK r \in Int : r = Reading(o) /\ r <= Latest  BY <1>2, TimesDef
  <2>2. total <= (valid_times - 1) * Latest + r  BY <1>1, <1>7, <2>1 DEF Counted
  <2>3. PICK a \in Int : /\ a = total \div valid_times /\ Earliest <= a /\ a <= Latest
                         /\ a <= r \/ a + 1 <= Latest
    BY <1>2, <2>1, <2>2, AverageFits
  <2>4. Earliest * Second <= a * Second  BY <1>2, <2>3, Multiples
  <2>5. Reading(o)' = r  BY <1>1, <2>1 DEF Reading
  <2>6. a \in Times'  BY <1>2, <1>6, <2>3 DEF Times
  <2>7. a \in Fits(o)'  BY <1>1, <1>3, <1>6, <2>3, <2>4, <2>5, <2>6 DEF Fits
  <2> QED  BY <1>1, <2>3, <2>7 DEF Counted
<1>8. Counted(offset)' /\ total' \in Int
  <2>1. PICK o \in Clocks : o = offset /\ o = offset'  BY <1>1, <1>2 DEF Types
  <2>2. Counted(o)'  BY <1>2, <1>7, <2>1
  <2>3. Counted(offset)'  BY <2>1, <2>2 DEF Counted, Fits, Reading
  <2> QED  BY <1>1, <1>2, <2>3, Division
<1>9. \A i \in Indices : Active(i) /\ Due(i)' => Due(i) /\ \A o \in Clocks : Counted(o) => Counted(o)'
  <2>1. \A i \in Indices : Active(i) /\ Due(i)' => Due(i)
    BY <1>1, Counters DEF Due, Inv, SlotInv, Indices
  <2> QED  BY <1>7, <2>1
<1>10. AgreeInv'  BY <1>1 DEF AgreeInv, Indices
<1>11. RoundInv'
  <2>1. 1 <= client_count + 1  BY Counters
  <2> QED  BY <1>1, <1>8, <2>1 DEF RoundInv
<1>12. /\ 1 \in 1..(MaxClients + 1) /\ valid_times \in 0..(MaxClients + 1) /\ offset \in Clocks
       /\ synced \in SUBSET Clients /\ unset \in SUBSET (Clients \cup {NoClient}) /\ 0 \in 0..now
  BY <1>2, BerkeleyAssumption DEF Types
<1> QED  BY <1>1, <1>5, <1>8, <1>9, <1>10, <1>11, <1>12, DaemonThinks

\* The daemon sets its own clock: the corrected clients follow it.
LEMMA SetTimeInv == ASSUME Inv, SetTime PROVE Inv'
<1>1. /\ UNCHANGED <<tableVars, running, clientVars, linkVars, now, age, slowest>>
      /\ UNCHANGED <<coffset, prog, toClient, toDaemon>>
      /\ dpc = "correct" /\ turn > client_count /\ dpc' \in {"sleep", "ended"}
      /\ turn' = 1 /\ total' = 0 /\ valid_times' = 0
      /\ synced' = {slot[i].socket : i \in {k \in 1..client_count : Corrects(k)}}
      /\ \/ offset' = Set(offset, total) /\ UNCHANGED unset
         \/ unset' = unset \cup {NoClient} /\ UNCHANGED offset
  BY DEF SetTime, Sleep, clientVars, linkVars, timeVars, modificar_tiempo_servidor
<1>2. Types /\ Looser  BY <1>1, StillLooser DEF Inv
<1>3. PICK o \in Clocks : o = offset  BY <1>2 DEF Types
<1>4. total \in Fits(o)  BY <1>1, <1>3 DEF Inv, RoundInv, Counted
<1>5. /\ Set(o, total) \in Clocks /\ total * Second <= Set(o, total) + now
      /\ Set(o, total) + now <= total * Second + (Second - 1)
  BY <1>2, <1>4, SetFits
<1>6. offset' \in Clocks /\ (offset' = Set(o, total) \/ NoClient \in unset')
  BY <1>1, <1>3, <1>5
<1>7. RoundInv' /\ \A i \in Indices : ~Due(i)'  BY <1>1 DEF RoundInv, Due, Counted
<1>8. \A c \in synced' : \E i \in Indices : i < turn /\ Corrects(i) /\ Serves(i, c) /\ c \in Clients
  <2>1. \A i \in 1..client_count : i \in Indices /\ i < turn  BY <1>1, Counters DEF Indices
  <2>2. \A i \in Indices : Corrects(i) => Active(i) /\ slot[i].socket \in Clients
    BY DEF Inv, SlotInv, Corrects
  <2> QED  BY <1>1, <2>1, <2>2 DEF Serves
<1>9. AgreeInv'
  <2>1. ASSUME NEW c \in synced', prog'[c] # "ended"  PROVE Follows(c)'
    <3>1. KeepsUp(c) /\ c \in Clients  BY <1>1, <1>8, <2>1 DEF Inv, AgreeInv
    <3>2. CASE NoClient \in unset'  BY <3>2 DEF Follows
    <3>3. CASE NoClient \notin unset'
      <4>1. PICK p \in Int : p = offset' /\ p = Set(o, total)  BY <1>2, <1>5, <1>6, <3>3, Time
      <4>2. /\ coffset[c] \in Int /\ total \in Int /\ age \in Int /\ age >= 0 /\ now \in Int
            /\ Second \in Int /\ total * Second \in Int
        BY <1>2, <3>1, Counters, Time
      <4>3. total * Second <= p + now /\ p + now <= total * Second + (Second - 1)  BY <1>5, <4>1
      <4>4. unset' = unset  BY <1>1, <3>3
      <4>5. CASE toClient[c] = <<>> /\ c \in unset  BY <1>1, <4>4, <4>5 DEF Follows
      <4>6. CASE toClient[c] = <<>> /\ Near(coffset[c], total)
        <5>1. /\ total * Second <= coffset[c] + now
              /\ coffset[c] + now <= total * Second + (Second - 1) + age
          BY <4>6 DEF Near
        <5>2. coffset[c] - (age + Second - 1) <= p /\ p <= coffset[c] + (age + Second - 1)
          <6>1. \A k, x, y, s, a, w \in Int :
                    k <= p + w /\ p + w <= k + (s - 1) /\ k <= x + w /\ x + w <= k + (s - 1) + a /\ a >= 0
                    => x - (a + s - 1) <= p /\ p <= x + (a + s - 1)
            OBVIOUS
          <6> QED  BY <4>2, <4>3, <5>1, <6>1
        <5>3. Apart(coffset[c], offset)'  BY <1>1, <4>1, <5>2 DEF Apart
        <5> QED  BY <1>1, <4>6, <5>3 DEF Follows
      <4>7. CASE toClient[c] = <<SyncTo(total)>>
        <5>1. p + now <= total * Second + (Second - 1) + age  BY <4>2, <4>3
        <5>2. PICK u \in Int : u = total  BY <4>2
        <5>3. u * Second <= p + now /\ p + now <= u * Second + (Second - 1) + age  BY <4>3, <5>1, <5>2
        <5>4. toClient'[c] = <<SyncTo(u)>> /\ Near(offset, u)'
          BY <1>1, <4>1, <4>7, <5>2, <5>3 DEF Near, SyncTo
        <5> QED  BY <5>4 DEF Follows, SyncTo
      <4> QED  BY <3>1, <4>5, <4>6, <4>7 DEF KeepsUp
    <3> QED  BY <3>2, <3>3
  <2> QED  BY <1>1, <2>1 DEF AgreeInv
<1>10. /\ 1 \in 1..(MaxClients + 1) /\ 0 \in 0..(MaxClients + 1) /\ age \in 0..now
       /\ synced' \in SUBSET Clients /\ unset' \in SUBSET (Clients \cup {NoClient})
  BY <1>1, <1>2, <1>8, BerkeleyAssumption DEF Types
<1> QED  BY <1>1, <1>2, <1>6, <1>7, <1>9, <1>10, DaemonThinks

\* A slot that is not active is passed over.
LEMMA AskSkips == ASSUME Inv, Ask, ~Active(turn) PROVE Inv'
<1>1. /\ UNCHANGED <<tableVars, running, clientVars, linkVars, now, age, slowest, unset, offset, synced, valid_times, client_count, total>>
      /\ dpc = "ask" /\ turn <= client_count /\ dpc' = "ask" /\ turn' = turn + 1
  BY DEF Ask, linkVars, tableVars, timeVars
<1>2. Types /\ Looser  BY <1>1, StillLooser DEF Inv
<1>3. \A i \in Indices : Active(i) /\ Due(i)' => Due(i) /\ \A o \in Clocks : Counted(o) => Counted(o)'
  <2>1. \A i \in Indices : i < turn + 1 => i < turn \/ i = turn  BY Counters DEF Indices
  <2>2. \A o \in Clocks : Counted(o) => Counted(o)'  BY <1>1, SumKept
  <2> QED  BY <1>1, <2>1, <2>2 DEF Due
<1>4. AgreeInv'  BY <1>1 DEF AgreeInv
<1>5. RoundInv'
  <2>1. Earliest' = Earliest /\ (Counted(offset)' <=> Counted(offset))
    BY <1>1 DEF Counted, Fits, Times, Earliest, Latest, Reading, Highest
  <2> QED  BY <1>1, <2>1, Counters DEF Inv, RoundInv
<1>6. turn + 1 \in 1..(MaxClients + 1)  BY <1>1, Counters
<1>7. /\ valid_times \in 0..(MaxClients + 1) /\ offset \in Clocks /\ synced \in SUBSET Clients /\ total \in Int
      /\ unset \in SUBSET (Clients \cup {NoClient}) /\ age \in 0..now
  BY <1>2 DEF Types
<1> QED  BY <1>1, <1>2, <1>3, <1>4, <1>5, <1>6, <1>7, DaemonThinks

\* Nor is it corrected.
LEMMA CorrectSkips == ASSUME Inv, Correct, ~Corrects(turn) PROVE Inv'
<1>1. /\ UNCHANGED <<tableVars, running, clientVars, linkVars, now, age, slowest, unset, offset, synced, valid_times, total>>
      /\ UNCHANGED <<coffset, prog, toClient, toDaemon, client_count, slot>>
      /\ dpc = "correct" /\ turn <= client_count /\ dpc' = "correct" /\ turn' = turn + 1
  BY DEF Correct, linkVars, tableVars, clientVars, timeVars
<1>2. Types /\ Looser  BY <1>1, StillLooser DEF Inv
<1>3. \A i \in Indices : Active(i) /\ Due(i)' => Due(i) /\ \A o \in Clocks : Counted(o) => Counted(o)'
  <2>1. \A o \in Clocks : Counted(o) => Counted(o)'  BY <1>1, SumKept
  <2> QED  BY <1>1, <2>1, Counters DEF Due, Indices
<1>4. AgreeInv'
  <2>1. \A i \in Indices : i < turn + 1 => i < turn \/ i = turn  BY Counters DEF Indices
  <2>2. \A i \in Indices : Corrects(i)' <=> Corrects(i)  BY <1>1 DEF Corrects, Active
  <2>3. \A i \in Indices : \A c : Serves(i, c)' <=> Serves(i, c)  BY <1>1, SlotsKept
  <2>4. \A c : KeepsUp(c)' <=> KeepsUp(c)  BY <1>1, <1>2, KeepsUpKept DEF SameMail
  <2> QED  BY <1>1, <2>1, <2>2, <2>3, <2>4 DEF Inv, AgreeInv
<1>5. RoundInv'
  <2>1. Counted(offset)' <=> Counted(offset)
    BY <1>1 DEF Counted, Fits, Times, Earliest, Latest, Reading, Highest
  <2> QED  BY <1>1, <2>1, Counters DEF Inv, RoundInv
<1>6. turn + 1 \in 1..(MaxClients + 1)  BY <1>1, Counters
<1>7. /\ valid_times \in 0..(MaxClients + 1) /\ offset \in Clocks /\ synced \in SUBSET Clients /\ total \in Int
      /\ unset \in SUBSET (Clients \cup {NoClient}) /\ age \in 0..now
  BY <1>2 DEF Types
<1> QED  BY <1>1, <1>2, <1>3, <1>4, <1>5, <1>6, <1>7, DaemonThinks

-----------------------------------------------------------------------------
\* A function is changed at one place.
LEMMA Updated ==
    ASSUME NEW S, NEW f, f = [d \in S |-> f[d]], NEW c \in S, NEW x, NEW g, g = [f EXCEPT ![c] = x]
    PROVE  g = [d \in S |-> g[d]] /\ g[c] = x /\ \A d \in S \ {c} : g[d] = f[d]
OBVIOUS

(***************************************************************************)
(* A step on the connection of c: what it must leave to the others.        *)
(***************************************************************************)
LEMMA OneConnection ==
    ASSUME Inv, UNCHANGED <<tableVars, running, offset, synced, now, age, slowest>>, NEW c \in Clients,
           unset' \in SUBSET (Clients \cup {NoClient}),
           dpc' \in {"sleep", "ask", "wait", "correct", "ended", "closed", "killed"},
           turn' \in 1..(MaxClients + 1), valid_times' \in 0..(MaxClients + 1), total' \in Int,
           prog' \in [Clients -> {"off", "run", "ended"}], coffset' \in [Clients -> Clocks],
           link' \in [Clients -> Links],
           toClient' = [d \in Clients |-> toClient'[d]], toDaemon' = [d \in Clients |-> toDaemon'[d]],
           \A d \in Clients \ {c} : SameMail(d) /\ prog'[d] = prog[d] /\ link'[d] = link[d],
           Mail(c)', LinkInv(c)', \A i \in Indices : Serves(i, c) => ConnInv(i, c)',
           Alive' => Alive,
           \A i \in Indices : Active(i) /\ ~Serves(i, c) /\ Alive =>
                /\ Due(i)' => Due(i)
                /\ dpc = "wait" /\ turn = i => dpc' = "wait" /\ turn' = i,
           \A o \in Clocks : Counted(o) => Counted(o)',
           RoundInv', AgreeInv'
    PROVE  Inv'
<1>1. Clocks' = Clocks  BY DEF Clocks, Highest
<1>2. Types'
  <2>1. Types  BY DEF Inv
  <2>2. UNCHANGED <<slot, client_count>>  BY DEF tableVars
  <2> QED  BY <1>1, <2>1, <2>2 DEF Types
<1>3. ASSUME NEW d \in Clients  PROVE Mail(d)' /\ LinkInv(d)'
  <2>1. CASE d = c  BY <2>1
  <2>2. CASE d # c
    <3>1. Mail(d) /\ LinkInv(d) /\ Types  BY DEF Inv
    <3> QED  BY <2>2, <3>1, MailKept, LinkKept
  <2> QED  BY <2>1, <2>2
<1>4. ASSUME NEW i \in Indices, NEW d \in Clients  PROVE ConnInv(i, d)'
  <2>1. \A e : Serves(i, e)' <=> Serves(i, e)  BY SlotsKept
  <2>2. CASE Serves(i, d) /\ d = c  BY <2>2
  <2>3. CASE Serves(i, d) /\ d # c
    <3>1. ConnInv(i, d) /\ SameMail(d) /\ link'[d] = link[d] /\ Types  BY <2>3 DEF Inv
    <3>2. Active(i) /\ ~Serves(i, c)  BY <2>3 DEF Serves
    <3>3. Counted(coffset[d]) => Counted(coffset[d])'
      <4>1. coffset[d] \in Clocks /\ coffset'[d] = coffset[d]  BY <3>1 DEF Types, SameMail
      <4> QED  BY <4>1, CountedKept
    <3> QED  BY <2>3, <3>1, <3>2, <3>3, ConnKept
  <2>4. CASE ~Serves(i, d)  BY <2>1, <2>4 DEF ConnInv
  <2> QED  BY <2>2, <2>3, <2>4
<1> QED  BY <1>2, <1>3, <1>4, SlotsKept DEF Inv

\* The daemon's process is gone.
LEMMA DiesInv ==
    ASSUME Inv, NEW how \in {"killed", "closed"}, Dies(how), turn' \in 1..(MaxClients + 1),
           UNCHANGED <<tableVars, running, total, valid_times, offset, clientVars, toClient,
                       toDaemon, synced, unset, timeVars>>
    PROVE  Inv'
<1>1. /\ dpc' = how /\ ~Alive'
      /\ link' = [c \in Clients |-> IF link[c] = "none" THEN "none" ELSE "closed"]
      /\ UNCHANGED <<slot, client_count, prog, coffset, toClient, toDaemon, now, age, slowest>>
  BY DEF Dies, Alive, tableVars, clientVars, timeVars
<1>2. Clocks' = Clocks /\ Types /\ Looser  BY <1>1, StillLooser DEF Clocks, Highest, Inv
<1>3. Types'
  <2>1. Types  BY DEF Inv
  <2>2. link' \in [Clients -> Links]  BY <1>1 DEF Links
  <2> QED  BY <1>1, <1>2, <2>1, <2>2 DEF Types
<1>4. ASSUME NEW c \in Clients  PROVE Mail(c)' /\ LinkInv(c)'
  <2>1. SameMail(c) /\ prog'[c] = prog[c]  BY <1>1, <1>2 DEF SameMail
  <2>2. Mail(c) /\ LinkInv(c)  BY DEF Inv
  <2>3. link'[c] = IF link[c] = "none" THEN "none" ELSE "closed"  BY <1>1
  <2> QED  BY <1>2, <2>1, <2>2, <2>3, MailKept DEF LinkInv
<1>5. \A i \in Indices : \A c \in Clients : ConnInv(i, c)'  BY <1>1 DEF ConnInv
<1>6. RoundInv' /\ AgreeInv'  BY <1>1 DEF RoundInv, AgreeInv, Counted
<1> QED  BY <1>3, <1>4, <1>5, <1>6, SlotsKept DEF Inv

\* A client of the table that is running is connected.
LEMMA RunningIsUp ==
    ASSUME Inv, Alive, NEW i \in Indices, NEW c \in Clients, Serves(i, c)
    PROVE  /\ link[c] \in {"up", "fin", "reset", "pipe"}
           /\ prog[c] # "off" /\ (link[c] # "up" => prog[c] = "ended")
<1>1. ConnInv(i, c) /\ LinkInv(c)  BY DEF Inv
<1> QED  BY <1>1 DEF ConnInv, LinkInv

\* The request is sent.
LEMMA AskSends == ASSUME Inv, Ask, Active(turn) PROVE Inv'
<1>1. /\ UNCHANGED <<tableVars, running, total, valid_times, offset, clientVars, toDaemon, synced, unset, timeVars>>
      /\ UNCHANGED <<turn, prog, coffset, slot, client_count, now, age, slowest>>
      /\ dpc = "ask" /\ turn <= client_count /\ SendTo(slot[turn].socket, Request, "wait")
  BY DEF Ask, clientVars, tableVars, timeVars
<1>2. turn \in Indices  BY <1>1, Counters DEF Indices
<1>3. PICK c \in Clients : Serves(turn, c)  BY <1>2 DEF Inv, SlotInv, Serves
<1>4. SendTo(c, Request, "wait")  BY <1>1, <1>3 DEF Serves
<1>5. Types /\ Looser /\ Mail(c) /\ LinkInv(c) /\ ConnInv(turn, c) /\ Alive
  BY <1>1, <1>2, StillLooser DEF Inv, Alive
<1>6. CASE Dies("killed") /\ UNCHANGED toClient
  <2>1. turn' \in 1..(MaxClients + 1)  BY <1>1, <1>5 DEF Types
  <2> QED  BY <1>1, <1>6, <2>1, DiesInv
<1>7. ASSUME dpc' = "wait", link' \in [Clients -> Links],
             toClient' = [d \in Clients |-> toClient'[d]],
             \A d \in Clients \ {c} : toClient'[d] = toClient[d] /\ link'[d] = link[d],
             Mail(c)', LinkInv(c)', link'[c] \in {"up", "fin", "reset", "pipe"}
      PROVE  Inv'
  <2>1. \A d \in Clients \ {c} : SameMail(d) /\ prog'[d] = prog[d] /\ link'[d] = link[d]
    BY <1>1, <1>5, <1>7 DEF SameMail
  <2>2. ASSUME NEW i \in Indices, Serves(i, c)  PROVE ConnInv(i, c)'
    <3>1. i = turn  BY <1>2, <1>3, <2>2 DEF Inv, OneSlotEach
    <3>2. ~Due(i)'  BY <1>1, <1>7, <3>1, Counters DEF Due
    <3> QED  BY <1>1, <1>7, <3>1, <3>2 DEF ConnInv
  <2>3. Active(turn)'  BY <1>1, <1>2, SlotsKept
  <2>4. RoundInv'
    <3>1. Earliest' = Earliest /\ (Counted(offset)' <=> Counted(offset))
      BY <1>1, <1>7 DEF Counted, Earliest, Latest, Reading, Highest
    <3> QED  BY <1>1, <1>7, <2>3, <3>1 DEF Inv, RoundInv
  <2>5. AgreeInv'  BY <1>7 DEF AgreeInv
  <2>6. \A i \in Indices : Due(i)' => Due(i)  BY <1>1, <1>7 DEF Due
  <2>7. /\ turn' \in 1..(MaxClients + 1) /\ valid_times' \in 0..(MaxClients + 1) /\ total' \in Int
        /\ prog' \in [Clients -> {"off", "run", "ended"}] /\ coffset' \in [Clients -> Clocks]
        /\ toDaemon' = [d \in Clients |-> toDaemon'[d]] /\ unset' \in SUBSET (Clients \cup {NoClient})
    BY <1>1, <1>5 DEF Types
  <2>8. dpc # "wait" /\ \A o \in Clocks : Counted(o) => Counted(o)'  BY <1>1, <1>7, SumKept
  <2> QED  BY <1>1, <1>5, <1>7, <2>1, <2>2, <2>4, <2>5, <2>6, <2>7, <2>8, OneConnection
<1>8. CASE /\ link[c] = "up" /\ dpc' = "wait" /\ UNCHANGED link
           /\ toClient' = [toClient EXCEPT ![c] = Append(toClient[c], Request)]
  <2>1. /\ toClient' = [d \in Clients |-> toClient'[d]]
        /\ toClient'[c] = Append(toClient[c], Request)
        /\ \A d \in Clients \ {c} : toClient'[d] = toClient[d]
    BY <1>5, <1>8, Updated DEF Types
  <2>2. /\ toDaemon'[c] = toDaemon[c] /\ coffset'[c] = coffset[c]
        /\ Fits(coffset[c]) \subseteq Fits(coffset[c])'
    BY <1>1 DEF Fits, Times, Earliest, Latest, Reading, Highest
  <2>3. Mail(c)'
    <3>1. CASE Silent(c)  BY <2>1, <2>2, <3>1, Sequences1 DEF Silent, Asked, Mail, Request
    <3>2. CASE Corrected(c)
      <4>1. PICK t \in Fits(coffset[c]) : toClient[c] = <<SyncTo(t)>>  BY <3>2 DEF Corrected
      <4>2. toClient'[c] = <<SyncTo(t), Request>>  BY <2>1, <4>1, AppendSecond
      <4> QED  BY <2>2, <3>2, <4>2 DEF Corrected, AskedAgain, Mail
    <3> QED  BY <1>1, <1>3, <1>5, <3>1, <3>2 DEF ConnInv
  <2>4. LinkInv(c)'  BY <1>1, <1>5, <1>8 DEF LinkInv
  <2>5. link' \in [Clients -> Links]  BY <1>5, <1>8 DEF Types
  <2> QED  BY <1>7, <1>8, <2>1, <2>3, <2>4, <2>5
<1>9. CASE /\ link[c] \in {"fin", "reset"} /\ dpc' = "wait" /\ UNCHANGED toClient
           /\ link' = [link EXCEPT ![c] = "pipe"]
  <2>1. /\ link' \in [Clients -> Links] /\ link'[c] = "pipe"
        /\ \A d \in Clients \ {c} : link'[d] = link[d]
    BY <1>5, <1>9 DEF Types, Links
  <2>2. SameMail(c)  BY <1>1, <1>5, <1>9 DEF SameMail
  <2>3. Mail(c)'  BY <1>5, <2>2, MailKept
  <2>4. LinkInv(c)'  BY <1>1, <1>5, <1>9, <2>1 DEF LinkInv
  <2>5. toClient' = [d \in Clients |-> toClient'[d]]  BY <1>5, <1>9 DEF Types
  <2> QED  BY <1>7, <1>9, <2>1, <2>3, <2>4, <2>5
<1> QED  BY <1>4, <1>6, <1>8, <1>9 DEF SendTo

\* The correction is sent to a client that has answered, so that nothing
\* else is on its connection.
LEMMA CorrectSends == ASSUME Inv, Correct, Corrects(turn) PROVE Inv'
<1>1. /\ UNCHANGED <<tableVars, running, total, valid_times, offset, clientVars, toDaemon, synced, unset, timeVars>>
      /\ UNCHANGED <<prog, coffset, slot, client_count, now, age, slowest>>
      /\ dpc = "correct" /\ turn <= client_count /\ turn' = turn + 1
      /\ SendTo(slot[turn].socket, SyncTo(total), "correct")
  BY DEF Correct, clientVars, tableVars, timeVars
<1>2. turn \in Indices /\ turn' \in 1..(MaxClients + 1) /\ turn + 1 <= client_count + 1
  BY <1>1, Counters DEF Indices
<1>3. PICK c \in Clients : Serves(turn, c)  BY <1>2 DEF Inv, SlotInv, Serves, Corrects
<1>4. SendTo(c, SyncTo(total), "correct")  BY <1>1, <1>3 DEF Serves
<1>5. Types /\ Looser /\ Mail(c) /\ LinkInv(c) /\ ConnInv(turn, c) /\ Alive
  BY <1>1, <1>2, StillLooser DEF Inv, Alive
<1>6. Silent(c) /\ total \in Fits(coffset[c])
  <2>1. Due(turn)  BY <1>1, Counters DEF Due
  <2> QED  BY <1>1, <1>3, <1>5, <2>1 DEF ConnInv, Counted
<1>7. CASE Dies("killed") /\ UNCHANGED toClient  BY <1>1, <1>2, <1>7, DiesInv
<1>8. Fits(coffset[c])' = Fits(coffset[c]) /\ (Counted(offset) /\ dpc' = "correct" => Counted(offset)')
  BY <1>1 DEF Fits, Times, Earliest, Latest, Reading, Highest, Counted
<1>9. ASSUME dpc' = "correct", link' \in [Clients -> Links],
             toClient' = [d \in Clients |-> toClient'[d]],
             \A d \in Clients \ {c} : toClient'[d] = toClient[d] /\ link'[d] = link[d],
             Mail(c)', LinkInv(c)', link'[c] \in {"up", "pipe"},
             Silent(c)' \/ Corrected(c)',
             prog[c] # "ended" => KeepsUp(c)'
      PROVE  Inv'
  <2>1. \A d \in Clients \ {c} : SameMail(d) /\ prog'[d] = prog[d] /\ link'[d] = link[d]
    BY <1>1, <1>5, <1>9 DEF SameMail
  <2>2. \A i \in Indices : Serves(i, c) => i = turn  BY <1>2, <1>3 DEF Inv, OneSlotEach
  <2>3. ASSUME NEW i \in Indices, Serves(i, c)  PROVE ConnInv(i, c)'
    <3>1. i = turn  BY <2>2, <2>3
    <3>2. ~Due(i)'  BY <1>1, <1>9, <3>1, Counters DEF Due
    <3> QED  BY <1>9, <3>2 DEF ConnInv
  <2>4. RoundInv'  BY <1>1, <1>2, <1>8, <1>9 DEF Inv, RoundInv
  <2>5. AgreeInv'
    <3>1. \A i \in Indices : i < turn + 1 => i < turn \/ i = turn  BY Counters DEF Indices
    <3>2. \A i \in Indices : Corrects(i)' <=> Corrects(i)  BY <1>1 DEF Corrects, Active
    <3>3. \A i \in Indices : \A d : Serves(i, d)' <=> Serves(i, d)  BY <1>1, SlotsKept
    <3>4. ASSUME NEW i \in Indices, NEW d \in Clients,
                 i < turn', Corrects(i)', Serves(i, d)', prog'[d] # "ended"
          PROVE  KeepsUp(d)'
      <4>1. Serves(i, d) /\ Corrects(i) /\ prog[d] # "ended" /\ (i < turn \/ i = turn)
        BY <1>1, <3>1, <3>2, <3>3, <3>4
      <4>2. CASE d = c  BY <1>9, <4>1, <4>2
      <4>3. CASE d # c
        <5>1. i < turn  BY <1>3, <4>1, <4>3 DEF Serves
        <5>2. KeepsUp(d)  BY <1>1, <4>1, <5>1 DEF Inv, AgreeInv
        <5> QED  BY <1>1, <2>1, <4>3, <5>2, KeepsUpKept
      <4> QED  BY <4>2, <4>3
    <3> QED  BY <1>9, <3>4 DEF AgreeInv
  <2>6. \A i \in Indices : Due(i)' => Due(i)  BY <1>1, <1>9, Counters DEF Due, Indices
  <2>7. /\ valid_times' \in 0..(MaxClients + 1) /\ total' \in Int
        /\ prog' \in [Clients -> {"off", "run", "ended"}] /\ coffset' \in [Clients -> Clocks]
        /\ toDaemon' = [d \in Clients |-> toDaemon'[d]] /\ unset' \in SUBSET (Clients \cup {NoClient})
    BY <1>1, <1>5 DEF Types
  <2>8. dpc # "wait" /\ \A o \in Clocks : Counted(o) => Counted(o)'  BY <1>1, <1>9, SumKept
  <2> QED  BY <1>1, <1>2, <1>5, <1>9, <2>1, <2>3, <2>4, <2>5, <2>6, <2>7, <2>8, OneConnection
<1>10. CASE /\ link[c] = "up" /\ dpc' = "correct" /\ UNCHANGED link
            /\ toClient' = [toClient EXCEPT ![c] = Append(toClient[c], SyncTo(total))]
  <2>1. /\ toClient' = [d \in Clients |-> toClient'[d]]
        /\ toClient'[c] = Append(toClient[c], SyncTo(total))
        /\ \A d \in Clients \ {c} : toClient'[d] = toClient[d]
    BY <1>5, <1>10, Updated DEF Types
  <2>2. toClient'[c] = <<SyncTo(total)>> /\ toDaemon'[c] = <<>>
    BY <1>1, <1>6, <2>1, Sequences1 DEF Silent
  <2>3. Corrected(c)'  BY <1>6, <1>8, <2>2 DEF Corrected
  <2>4. KeepsUp(c)'  BY <1>1, <2>2 DEF KeepsUp
  <2>5. LinkInv(c)'  BY <1>1, <1>5, <1>10 DEF LinkInv
  <2>6. link' \in [Clients -> Links]  BY <1>5, <1>10 DEF Types
  <2> QED  BY <1>9, <1>10, <2>1, <2>3, <2>4, <2>5, <2>6 DEF Mail
<1>11. CASE /\ link[c] \in {"fin", "reset"} /\ dpc' = "correct" /\ UNCHANGED toClient
            /\ link' = [link EXCEPT ![c] = "pipe"]
  <2>1. /\ link' \in [Clients -> Links] /\ link'[c] = "pipe"
        /\ \A d \in Clients \ {c} : link'[d] = link[d]
    BY <1>5, <1>11 DEF Types, Links
  <2>2. SameMail(c)  BY <1>1, <1>5, <1>11 DEF SameMail
  <2>3. Mail(c)' /\ Silent(c)'  BY <1>5, <1>6, <2>2, MailKept
  <2>4. LinkInv(c)' /\ prog[c] = "ended"  BY <1>1, <1>5, <1>11, <2>1 DEF LinkInv
  <2>5. toClient' = [d \in Clients |-> toClient'[d]]  BY <1>5, <1>11 DEF Types
  <2> QED  BY <1>9, <1>11, <2>1, <2>3, <2>4, <2>5
<1> QED  BY <1>4, <1>7, <1>10, <1>11 DEF SendTo

\* An answer has come: it was the only one, and nothing is behind it.
LEMMA GetTimeInv == ASSUME Inv, GetTime PROVE Inv'
<1>1. /\ UNCHANGED <<tableVars, running, offset, clientVars, link, toClient, synced, unset, timeVars>>
      /\ UNCHANGED <<prog, coffset, slot, client_count, now, age, slowest>>
      /\ dpc = "wait" /\ dpc' = "ask" /\ turn' = turn + 1 /\ valid_times' = valid_times + 1
      /\ toDaemon[slot[turn].socket] # <<>>
      /\ total' = total + Head(toDaemon[slot[turn].socket])
      /\ toDaemon' = [toDaemon EXCEPT ![slot[turn].socket] = Tail(@)]
  BY DEF GetTime, clientVars, tableVars, timeVars
<1>2. /\ turn <= client_count /\ Active(turn) /\ valid_times >= 1 /\ valid_times <= turn
      /\ valid_times * Earliest <= total /\ Counted(offset)
  BY <1>1 DEF Inv, RoundInv
<1>3. /\ turn \in Indices /\ turn + 1 \in 1..(MaxClients + 1)
      /\ valid_times + 1 \in 0..(MaxClients + 1) /\ turn + 1 <= client_count + 1
  BY <1>2, Counters DEF Indices
<1>4. PICK c \in Clients : Serves(turn, c)  BY <1>2, <1>3 DEF Inv, SlotInv, Serves
<1>5. Types /\ Looser /\ Mail(c) /\ LinkInv(c) /\ ConnInv(turn, c) /\ Alive
  BY <1>1, <1>3, StillLooser DEF Inv, Alive
<1>6. slot[turn].socket = c  BY <1>4 DEF Serves
<1>7. Answered(c)
  BY <1>1, <1>5, <1>6 DEF Mail, Silent, Asked, Corrected, AskedAgain
<1>8. PICK t \in Times : toDaemon[c] = <<t>> /\ t <= Reading(coffset[c])  BY <1>7 DEF Answered
<1>9. /\ toDaemon' = [d \in Clients |-> toDaemon'[d]]
      /\ toDaemon'[c] = Tail(toDaemon[c])
      /\ \A d \in Clients \ {c} : toDaemon'[d] = toDaemon[d]
  BY <1>1, <1>5, <1>6, Updated DEF Types
<1>10. Silent(c)'  BY <1>1, <1>7, <1>8, <1>9, Sequences1 DEF Silent, Answered
<1>11. total' = total + t  BY <1>1, <1>6, <1>8, Sequences1
<1>12. LinkInv(c)'  BY <1>1, <1>5, <1>10 DEF LinkInv
<1>13. /\ (valid_times + 1) * Earliest <= total + t
       /\ \A o \in Clocks : Counted(o) => Counted(o)'
       /\ Counted(coffset[c])'
  <2>1. /\ t \in Int /\ Earliest <= t /\ t <= Latest /\ Earliest \in Int /\ Latest \in Int
        /\ valid_times \in Nat \ {0} /\ total \in Int /\ offset \in Clocks /\ coffset[c] \in Clocks
        /\ \A o \in Clocks : Reading(o) \in Int /\ Reading(o) <= Latest
    BY <1>2, <1>5, TimesDef, Counters DEF Types
  <2>2. Latest' = Latest /\ \A o : Reading(o)' = Reading(o)  BY <1>1 DEF Latest, Reading, Highest
  <2>3. /\ (valid_times + 1) * Earliest <= total + t
        /\ \A r \in Int : total <= (valid_times - 1) * Latest + r
                           => total + t <= ((valid_times + 1) - 1) * Latest + r
        /\ \A r, s \in Int : s <= Latest /\ t <= r /\ total <= (valid_times - 1) * Latest + s
                           => total + t <= ((valid_times + 1) - 1) * Latest + r
    BY <1>2, <2>1, SumOfTimes
  <2>4. \A o \in Clocks : Counted(o) => Counted(o)'
    BY <1>1, <1>11, <2>1, <2>2, <2>3 DEF Counted
  <2>5. total <= (valid_times - 1) * Latest + Reading(offset)  BY <1>1, <1>2 DEF Counted
  <2>6. total + t <= ((valid_times + 1) - 1) * Latest + Reading(coffset[c])
    BY <1>8, <2>1, <2>3, <2>5
  <2>7. Reading(coffset[c])' = Reading(coffset[c])  BY <1>1 DEF Reading
  <2>8. Counted(coffset[c])'  BY <1>1, <1>11, <2>2, <2>6, <2>7 DEF Counted
  <2> QED  BY <2>3, <2>4, <2>8
<1>14. ASSUME NEW i \in Indices, Serves(i, c)  PROVE ConnInv(i, c)'
  <2>1. i = turn  BY <1>3, <1>4, <1>14 DEF Inv, OneSlotEach
  <2>2. link'[c] \in {"up", "fin", "reset", "pipe"}  BY <1>1, <1>4, <1>5 DEF ConnInv
  <2> QED  BY <1>10, <1>13, <2>2 DEF ConnInv
<1>15. RoundInv'
  <2>1. Earliest' = Earliest /\ Counted(offset)'
    <3>1. PICK o \in Clocks : o = offset /\ o = offset'  BY <1>1, <1>5 DEF Types
    <3>2. Counted(o)'  BY <1>2, <1>13, <3>1
    <3> QED  BY <1>1, <3>1, <3>2 DEF Counted, Fits, Reading, Earliest
  <2>2. valid_times + 1 >= 1 /\ valid_times + 1 <= turn + 1  BY <1>2, Counters
  <2> QED  BY <1>1, <1>3, <1>11, <1>13, <2>1, <2>2 DEF RoundInv
<1>16. AgreeInv'  BY <1>1 DEF AgreeInv
<1>17. ASSUME NEW i \in Indices, Active(i), ~Serves(i, c)  PROVE i # turn /\ (Due(i)' => Due(i))
  <2>1. i # turn  BY <1>4, <1>17
  <2>2. i < turn + 1 => i < turn \/ i = turn  BY Counters DEF Indices
  <2> QED  BY <1>1, <2>1, <2>2 DEF Due
<1>18. total' \in Int  BY <1>5, <1>11, TimesDef, Counters
<1>19. /\ prog' \in [Clients -> {"off", "run", "ended"}] /\ coffset' \in [Clients -> Clocks]
       /\ toClient' = [d \in Clients |-> toClient'[d]] /\ link' \in [Clients -> Links]
       /\ unset' \in SUBSET (Clients \cup {NoClient})
  BY <1>1, <1>5 DEF Types
<1>20. \A d \in Clients \ {c} : SameMail(d) /\ prog'[d] = prog[d] /\ link'[d] = link[d]
  BY <1>1, <1>5, <1>9 DEF SameMail
<1> QED
  BY <1>1, <1>3, <1>5, <1>9, <1>10, <1>12, <1>14, <1>15, <1>16, <1>17, <1>18, <1>19, <1>20, <1>13,
     OneConnection DEF Mail

LEMMA SlotGivenUp == \A r \in Slots : [r EXCEPT !.active = FALSE] \in Slots /\ ~[r EXCEPT !.active = FALSE].active
BY Zenon DEF Slots

\* No answer: the slot is given up.
LEMMA GetNothingInv == ASSUME Inv, GetNothing PROVE Inv'
<1>1. /\ UNCHANGED <<client_count, running, total, valid_times, offset, clientVars, linkVars, synced, unset, timeVars>>
      /\ UNCHANGED <<prog, coffset, link, toClient, toDaemon, now, age, slowest>>
      /\ dpc = "wait" /\ dpc' = "ask" /\ turn' = turn + 1
      /\ slot' = [slot EXCEPT ![turn].active = FALSE]
  BY DEF GetNothing, clientVars, linkVars, timeVars
<1>2. /\ turn <= client_count /\ valid_times >= 1 /\ valid_times <= turn
      /\ valid_times * Earliest <= total /\ Counted(offset)
  BY <1>1 DEF Inv, RoundInv
<1>3. /\ turn \in Indices /\ turn + 1 \in 1..(MaxClients + 1) /\ turn + 1 <= client_count + 1
      /\ valid_times <= turn + 1
  BY <1>2, Counters DEF Indices
<1>4. Types /\ Looser  BY <1>1, StillLooser DEF Inv
<1>5. /\ slot' \in [Indices -> Slots] /\ slot'[turn].active = FALSE
      /\ \A i \in Indices \ {turn} : slot'[i] = slot[i]
  <2>1. slot \in [Indices -> Slots] /\ turn \in Indices /\ slot' = [slot EXCEPT ![turn].active = FALSE]
    BY <1>1, <1>3, <1>4 DEF Types
  <2>2. PICK r \in Slots : r = [slot[turn] EXCEPT !.active = FALSE] /\ ~r.active
    BY <2>1, SlotGivenUp, Zenon
  <2>3. slot' = [slot EXCEPT ![turn] = r]  BY <2>1, <2>2
  <2>4. r.active \in BOOLEAN  BY DEF Slots
  <2> QED  BY <2>1, <2>2, <2>3, <2>4
<1>6. Clocks' = Clocks /\ Earliest' = Earliest /\ (Counted(offset)' <=> Counted(offset))
  BY <1>1 DEF Clocks, Highest, Counted, Earliest, Latest, Reading
<1>7. Types'  BY <1>1, <1>3, <1>4, <1>5, <1>6 DEF Types
<1>8. \A i \in Indices : Active(i)' => i # turn  BY <1>5 DEF Active
<1>9. \A i \in Indices \ {turn} : SlotInv(i)' /\ (Active(i)' <=> Active(i)) /\ \A c : Serves(i, c)' <=> Serves(i, c)
  BY <1>1, <1>5, SlotKept DEF Inv
<1>10. \A i \in Indices : SlotInv(i)'  BY <1>8, <1>9 DEF SlotInv
<1>11. OneSlotEach'  BY <1>8, <1>9 DEF Inv, OneSlotEach, Serves
<1>12. \A c \in Clients : SameMail(c) /\ prog'[c] = prog[c] /\ link'[c] = link[c]
  BY <1>1, <1>4 DEF SameMail
<1>13. \A c \in Clients : Mail(c)' /\ LinkInv(c)'  BY <1>4, <1>12, MailKept, LinkKept DEF Inv
<1>14. ASSUME NEW i \in Indices, NEW c \in Clients  PROVE ConnInv(i, c)'
  <2>1. CASE i = turn  BY <1>8, <2>1 DEF ConnInv, Serves
  <2>2. CASE i # turn
    <3>1. ConnInv(i, c) /\ SameMail(c) /\ link'[c] = link[c] /\ (Serves(i, c)' <=> Serves(i, c))
      BY <1>9, <1>12, <2>2 DEF Inv
    <3>2. i < turn + 1 => i < turn  BY <2>2, Counters DEF Indices
    <3>3. (Due(i)' => Due(i)) /\ Alive  BY <1>1, <3>2 DEF Due, Alive
    <3>4. Counted(coffset[c]) => Counted(coffset[c])'
      <4>1. coffset[c] \in Clocks /\ coffset'[c] = coffset[c]  BY <1>1, <1>4 DEF Types
      <4>2. \A o \in Clocks : Counted(o) => Counted(o)'  BY <1>1, SumKept
      <4> QED  BY <4>1, <4>2, CountedKept
    <3> QED  BY <1>4, <2>2, <3>1, <3>3, <3>4, ConnKept
  <2> QED  BY <2>1, <2>2
<1>15. RoundInv' /\ AgreeInv'  BY <1>1, <1>2, <1>3, <1>6 DEF RoundInv, AgreeInv
<1> QED  BY <1>7, <1>10, <1>11, <1>13, <1>14, <1>15 DEF Inv

\* A client is accepted: it has had no slot and no mail before.
LEMMA AcceptInv == ASSUME Inv, NEW c \in Clients, Accept(c) PROVE Inv'
<1> DEFINE free == {i \in Indices : ~Active(i)}
           first == CHOOSE k \in free : \A m \in free : k <= m
<1>1. /\ UNCHANGED <<running, roundVars, clientVars, toClient, toDaemon, synced, unset, timeVars>>
      /\ UNCHANGED <<dpc, turn, total, valid_times, offset, prog, coffset, now, age, slowest>>
      /\ dpc \in {"sleep", "ended"} /\ prog[c] # "off" /\ link[c] \in {"queued", "queuedfin"}
  BY DEF Accept, MutexFree, roundVars, clientVars, timeVars
<1>2. Types /\ Looser /\ Mail(c) /\ LinkInv(c) /\ Alive /\ Alive'  BY <1>1, StillLooser DEF Inv, Alive
<1>3. Silent(c)  BY <1>1, <1>2 DEF LinkInv
<1>4. \A i \in Indices : ~Serves(i, c)  BY <1>1, <1>2, RunningIsUp
<1>5. \A d \in Clients : SameMail(d) /\ prog'[d] = prog[d]  BY <1>1, <1>2 DEF SameMail
<1>6. Clocks' = Clocks /\ \A o \in Clocks : Counted(o) => Counted(o)'  BY <1>1, SumKept DEF Clocks, Highest
<1>7. Mail(c)' /\ Silent(c)'  BY <1>2, <1>3, <1>5, MailKept
<1>8. AgreeInv'
  <2>1. \A d \in Clients : Follows(d)' <=> Follows(d)  BY <1>1, <1>5, FollowsKept
  <2>2. synced \subseteq Clients  BY <1>2 DEF Types
  <2> QED  BY <1>1, <2>1, <2>2 DEF Inv, AgreeInv
<1>9. RoundInv' /\ \A i \in Indices : ~Due(i)'  BY <1>1 DEF RoundInv, Due, Counted
<1>10. CASE link' = [link EXCEPT ![c] = "closed"] /\ UNCHANGED tableVars
  <2>1. /\ link' \in [Clients -> Links] /\ link'[c] = "closed"
        /\ \A d \in Clients \ {c} : link'[d] = link[d]
    BY <1>2, <1>10 DEF Types, Links
  <2>2. LinkInv(c)'  BY <1>1, <2>1 DEF LinkInv
  <2>3. /\ dpc' \in {"sleep", "ask", "wait", "correct", "ended", "closed", "killed"} /\ dpc # "wait"
        /\ turn' \in 1..(MaxClients + 1) /\ valid_times' \in 0..(MaxClients + 1) /\ total' \in Int
        /\ prog' \in [Clients -> {"off", "run", "ended"}] /\ coffset' \in [Clients -> Clocks]
        /\ toClient' = [d \in Clients |-> toClient'[d]] /\ toDaemon' = [d \in Clients |-> toDaemon'[d]]
        /\ unset' \in SUBSET (Clients \cup {NoClient})
    BY <1>1, <1>2 DEF Types
  <2> QED  BY <1>1, <1>2, <1>4, <1>5, <1>6, <1>7, <1>8, <1>9, <1>10, <2>1, <2>2, <2>3, OneConnection
<1>11. CASE /\ free # {}
            /\ slot' = [slot EXCEPT ![first] = [socket |-> c, active |-> TRUE]]
            /\ client_count' = CountUpTo(first)
            /\ link' = [link EXCEPT ![c] = IF @ = "queued" THEN "up" ELSE "fin"]
  <2>1. first \in free
    <3>1. \E k \in free : \A m \in free : k <= m
      <4>1. free \in SUBSET Nat  BY Counters DEF Indices
      <4> HIDE DEF free
      <4> QED  BY <1>11, <4>1, NatHasLeast
    <3> QED  BY <3>1
  <2>2. PICK i \in Indices : i = first /\ ~Active(i)  BY <2>1
  <2> HIDE DEF free, first
  <2>3. slot' = [slot EXCEPT ![i] = [socket |-> c, active |-> TRUE]] /\ client_count' = CountUpTo(i)
    BY <1>11, <2>2
  <2>4. /\ slot' \in [Indices -> Slots] /\ slot'[i] = [socket |-> c, active |-> TRUE]
        /\ \A k \in Indices \ {i} : slot'[k] = slot[k]
    BY <1>2, <2>3 DEF Types, Slots
  <2>5. client_count' \in 0..MaxClients /\ i <= client_count' /\ client_count <= client_count'
    BY <2>3, Counters DEF CountUpTo, Indices
  <2>6. /\ link' \in [Clients -> Links] /\ \A d \in Clients \ {c} : link'[d] = link[d]
        /\ link'[c] = IF link[c] = "queued" THEN "up" ELSE "fin"
    BY <1>2, <1>11 DEF Types, Links
  <2>7. Types'
    BY <1>1, <1>2, <1>6, <2>4, <2>5, <2>6 DEF Types
  <2>8. LinkInv(c)'  BY <1>1, <1>2, <2>6 DEF LinkInv
  <2>9. \A d \in Clients : Mail(d)' /\ LinkInv(d)'
    BY <1>2, <1>5, <2>6, <2>8, MailKept, LinkKept DEF Inv
  <2>10. \A k \in Indices \ {i} : SlotInv(k)' /\ \A d : Serves(k, d)' <=> Serves(k, d)
    <3>1. \A k \in Indices : k <= client_count => k <= client_count'
      BY <2>5, Counters DEF Indices
    <3> QED  BY <2>4, <3>1, SlotKept DEF Inv
  <2>11. SlotInv(i)' /\ \A d : Serves(i, d)' <=> d = c  BY <2>4, <2>5 DEF SlotInv, Serves, Active
  <2>12. OneSlotEach'  BY <1>4, <2>10, <2>11 DEF Inv, OneSlotEach
  <2>13. ASSUME NEW k \in Indices, NEW d \in Clients  PROVE ConnInv(k, d)'
    <3>1. CASE k = i
      BY <1>7, <1>9, <2>6, <2>11, <3>1 DEF ConnInv
    <3>2. CASE k # i
      <4>1. ConnInv(k, d) /\ SameMail(d) /\ (Serves(k, d)' <=> Serves(k, d))
        BY <1>5, <2>10, <3>2 DEF Inv
      <4>2. Serves(k, d) => link'[d] = link[d]  BY <1>4, <2>6
      <4> QED  BY <1>1, <1>2, <1>9, <4>1, <4>2, ConnKept
    <3> QED  BY <3>1, <3>2
  <2> QED  BY <1>8, <1>9, <2>7, <2>9, <2>10, <2>11, <2>12, <2>13 DEF Inv
<1> QED  BY <1>10, <1>11 DEF Accept

\* SIGINT or SIGTERM: only those who wait to be accepted notice.
LEMMA StopInv == ASSUME Inv, Stop PROVE Inv'
<1>1. /\ UNCHANGED <<tableVars, dpc, turn, total, valid_times, offset, prog, coffset>>
      /\ UNCHANGED <<toClient, toDaemon, synced, unset, now, age, slowest, slot, client_count>>
      /\ running' = FALSE
      /\ link' = [c \in Clients |-> IF link[c] \in {"queued", "queuedfin"} THEN "closed" ELSE link[c]]
  BY DEF Stop, roundVars, clientVars, tableVars, timeVars
<1>2. Types /\ Looser  BY <1>1, StillLooser DEF Inv
<1>3. Clocks' = Clocks /\ Earliest' = Earliest /\ (Counted(offset)' <=> Counted(offset))
  BY <1>1 DEF Clocks, Highest, Counted, Fits, Times, Earliest, Latest, Reading
<1>4. link' \in [Clients -> Links]  BY <1>1, <1>2 DEF Types, Links
<1>5. Types'  BY <1>1, <1>2, <1>3, <1>4 DEF Types
<1>6. ASSUME NEW c \in Clients
      PROVE  /\ SameMail(c) /\ Mail(c)' /\ LinkInv(c)'
             /\ link[c] \in {"up", "fin", "reset", "pipe"} => link'[c] = link[c]
  <2>1. SameMail(c) /\ prog'[c] = prog[c]  BY <1>1, <1>2 DEF SameMail
  <2>2. Mail(c) /\ LinkInv(c)  BY DEF Inv
  <2>3. link'[c] = IF link[c] \in {"queued", "queuedfin"} THEN "closed" ELSE link[c]  BY <1>1
  <2> QED  BY <1>2, <2>1, <2>2, <2>3, MailKept DEF LinkInv
<1>7. ASSUME NEW i \in Indices, NEW c \in Clients  PROVE ConnInv(i, c)'
  <2>1. ConnInv(i, c) /\ (Serves(i, c)' <=> Serves(i, c))  BY <1>1, SlotsKept DEF Inv
  <2>2. (Due(i)' <=> Due(i)) /\ (Alive' <=> Alive)  BY <1>1 DEF Due, Alive
  <2>3. Serves(i, c) /\ Alive => link'[c] = link[c]  BY <1>6, RunningIsUp
  <2>4. Counted(coffset[c]) => Counted(coffset[c])'
    <3>1. coffset[c] \in Clocks /\ coffset'[c] = coffset[c]  BY <1>1, <1>2 DEF Types
    <3>2. \A o \in Clocks : Counted(o) => Counted(o)'  BY <1>1, SumKept
    <3> QED  BY <3>1, <3>2, CountedKept
  <2> QED  BY <1>1, <1>2, <1>6, <2>1, <2>2, <2>3, <2>4, ConnKept
<1>8. RoundInv'
  <2>1. \A i \in Indices : Active(i)' <=> Active(i)  BY <1>1 DEF Active
  <2>2. dpc = "wait" => turn \in Indices  BY Counters DEF Inv, RoundInv, Indices
  <2> QED  BY <1>1, <1>3, <2>1, <2>2 DEF Inv, RoundInv
<1>9. AgreeInv'
  <2>1. \A c \in Clients : (Follows(c)' <=> Follows(c)) /\ (KeepsUp(c)' <=> KeepsUp(c))
    BY <1>1, <1>6, FollowsKept, KeepsUpKept
  <2>2. \A i \in Indices : Corrects(i)' <=> Corrects(i)  BY <1>1 DEF Corrects, Active
  <2>3. \A i \in Indices : \A c : Serves(i, c)' <=> Serves(i, c)  BY <1>1, SlotsKept
  <2>4. synced \subseteq Clients  BY <1>2 DEF Types
  <2> QED  BY <1>1, <2>1, <2>2, <2>3, <2>4 DEF Inv, AgreeInv
<1> QED  BY <1>1, <1>5, <1>6, <1>7, <1>8, <1>9, SlotsKept DEF Inv

LEMMA CloseInv == ASSUME Inv, Close PROVE Inv'
<1>1. turn' \in 1..(MaxClients + 1)  BY DEF Close, Inv, Types
<1> QED  BY <1>1, DiesInv DEF Close

-----------------------------------------------------------------------------
(***************************************************************************)
(* A step of the client c.                                                 *)
(***************************************************************************)
LEMMA ClientStep ==
    ASSUME Inv, UNCHANGED <<tableVars, running, roundVars, synced, timeVars>>, NEW c \in Clients,
           unset' \in SUBSET (Clients \cup {NoClient}),
           \A d \in (Clients \cup {NoClient}) \ {c} : d \in unset' <=> d \in unset,
           prog' \in [Clients -> {"off", "run", "ended"}], coffset' \in [Clients -> Clocks],
           link' \in [Clients -> Links],
           toClient' = [d \in Clients |-> toClient'[d]], toDaemon' = [d \in Clients |-> toDaemon'[d]],
           \A d \in Clients \ {c} :
                /\ toClient'[d] = toClient[d] /\ toDaemon'[d] = toDaemon[d]
                /\ prog'[d] = prog[d] /\ link'[d] = link[d] /\ coffset'[d] = coffset[d],
           Mail(c)', LinkInv(c)', \A i \in Indices : Serves(i, c) => ConnInv(i, c)',
           prog'[c] # "ended" =>
                /\ prog[c] # "ended"
                /\ KeepsUp(c) => KeepsUp(c)'
                /\ Follows(c) => Follows(c)'
    PROVE  Inv'
<1>1. UNCHANGED <<dpc, turn, total, valid_times, offset, slot, client_count, now, age, slowest>>
  BY DEF roundVars, tableVars, timeVars
<1>2. Types /\ Looser  BY <1>1, StillLooser DEF Inv
<1>3. \A d \in Clients \ {c} : SameMail(d)  BY <1>2 DEF SameMail
<1>4. RoundInv'
  <2>1. \A i \in Indices : Active(i)' <=> Active(i)  BY <1>1 DEF Active
  <2>2. dpc = "wait" => turn \in Indices  BY Counters DEF Inv, RoundInv, Indices
  <2>3. Earliest' = Earliest /\ (Counted(offset)' <=> Counted(offset))
    BY <1>1 DEF Highest, Counted, Fits, Times, Earliest, Latest, Reading
  <2> QED  BY <1>1, <2>1, <2>2, <2>3 DEF Inv, RoundInv
<1>5. AgreeInv'
  <2>1. \A d \in Clients \ {c} : (Follows(d)' <=> Follows(d)) /\ (KeepsUp(d)' <=> KeepsUp(d))
    BY <1>1, <1>3, FollowsKept, KeepsUpKept, BerkeleyAssumption
  <2>2. \A i \in Indices : Corrects(i)' <=> Corrects(i)  BY <1>1 DEF Corrects, Active
  <2>3. \A i \in Indices : \A d : Serves(i, d)' <=> Serves(i, d)  BY SlotsKept
  <2>4. synced \subseteq Clients  BY <1>2 DEF Types
  <2>5. ASSUME dpc = "sleep", NEW d \in synced, prog'[d] # "ended"  PROVE Follows(d)'
    <3>1. CASE d = c  BY <2>5, <3>1 DEF Inv, AgreeInv
    <3>2. CASE d # c  BY <1>1, <2>1, <2>4, <2>5, <3>2 DEF Inv, AgreeInv
    <3> QED  BY <3>1, <3>2
  <2>6. ASSUME dpc = "correct", NEW i \in Indices, NEW d \in Clients, i < turn, Corrects(i),
               Serves(i, d), prog'[d] # "ended"
        PROVE  KeepsUp(d)'
    <3>1. CASE d = c  BY <2>6, <3>1 DEF Inv, AgreeInv
    <3>2. CASE d # c  BY <2>1, <2>6, <3>2 DEF Inv, AgreeInv
    <3> QED  BY <3>1, <3>2
  <2> QED  BY <1>1, <2>2, <2>3, <2>5, <2>6 DEF AgreeInv
<1>6. \A i \in Indices : (Due(i)' <=> Due(i)) /\ (Alive' <=> Alive)  BY <1>1 DEF Due, Alive
<1>7. /\ dpc' \in {"sleep", "ask", "wait", "correct", "ended", "closed", "killed"}
      /\ turn' \in 1..(MaxClients + 1) /\ valid_times' \in 0..(MaxClients + 1) /\ total' \in Int
      /\ (Alive' => Alive) /\ \A o \in Clocks : Counted(o) => Counted(o)'
  BY <1>1, <1>2, SumKept DEF Types, Alive
<1> QED  BY <1>1, <1>3, <1>4, <1>5, <1>6, <1>7, OneConnection

\* The connection of a client keeps to the rounds when its mail is read.
LEMMA ReadingKeeps ==
    ASSUME Inv, NEW c \in Clients, NEW i \in Indices, Serves(i, c),
           UNCHANGED <<tableVars, roundVars, now, slowest>>, Due(i) => coffset'[c] = coffset[c],
           link[c] \in {"up", "fin", "reset", "pipe"} => link'[c] \in {"up", "fin", "reset", "pipe"},
           Silent(c) \/ Corrected(c) => Silent(c)'
    PROVE  ConnInv(i, c)'
<1>1. UNCHANGED <<dpc, turn, total, valid_times>>  BY DEF roundVars
<1>2. (Due(i)' <=> Due(i)) /\ (Alive' <=> Alive)  BY <1>1 DEF Due, Alive
<1>3. ConnInv(i, c) /\ Types  BY DEF Inv
<1>4. Due(i) => (Counted(coffset[c]) => Counted(coffset[c])')
  <2>1. \A o \in Clocks : Counted(o) => Counted(o)'  BY <1>1, SumKept
  <2>2. coffset[c] \in Clocks  BY <1>3 DEF Types
  <2> QED  BY <2>1, <2>2, CountedKept
<1> QED  BY <1>1, <1>2, <1>3, <1>4 DEF ConnInv

\* A client that was not yet corrected in the round has no mail.
LEMMA NotDue ==
    ASSUME Inv, NEW c \in Clients, NEW i \in Indices, Serves(i, c), ~Silent(c)
    PROVE  ~Due(i)
<1>1. Due(i) => Alive  BY DEF Due, Alive
<1> QED  BY <1>1 DEF Inv, ConnInv

\* A correction that fits is obeyed, or setting the clock fails.
LEMMA TimeIsSet ==
    ASSUME Types, NEW c \in Clients, NEW t \in Fits(coffset[c]), corregir_tiempo(c, t)
    PROVE  /\ coffset' \in [Clients -> Clocks] /\ unset' \in SUBSET (Clients \cup {NoClient})
           /\ \A d \in Clients \ {c} : coffset'[d] = coffset[d]
           /\ \A d \in (Clients \cup {NoClient}) \ {c} : d \in unset' <=> d \in unset
           /\ \/ c \in unset'
              \/ t * Second <= coffset'[c] + now /\ coffset'[c] + now <= t * Second + (Second - 1)
<1>1. coffset \in [Clients -> Clocks] /\ unset \in SUBSET (Clients \cup {NoClient})  BY DEF Types
<1>2. PICK p \in Clocks : /\ p = Set(coffset[c], t)
                          /\ t * Second <= p + now /\ p + now <= t * Second + (Second - 1)
  <2>1. coffset[c] \in Clocks  BY <1>1
  <2> QED  BY <2>1, SetFits
<1>3. CASE coffset' = [coffset EXCEPT ![c] = p] /\ unset' = unset \ {c}
  BY <1>1, <1>2, <1>3
<1>4. CASE unset' = unset \cup {c} /\ UNCHANGED coffset
  BY <1>1, <1>4
<1> QED  BY <1>2, <1>3, <1>4 DEF corregir_tiempo

\* A program starts: it is queued, or finds no daemon.
LEMMA ConnectInv == ASSUME Inv, NEW c \in Clients, Connect(c) PROVE Inv'
<1>1. /\ UNCHANGED <<tableVars, running, roundVars, synced, unset, timeVars, now, age, slowest, coffset, toClient, toDaemon>>
      /\ prog[c] = "off"
  BY DEF Connect, timeVars
<1>2. Types /\ Looser /\ Mail(c) /\ LinkInv(c)  BY <1>1, StillLooser DEF Inv
<1>3. link[c] = "none" /\ Silent(c)  BY <1>1, <1>2 DEF LinkInv
<1>4. \A d \in Clients : SameMail(d) /\ coffset'[d] = coffset[d]  BY <1>1, <1>2 DEF SameMail
<1>5. Mail(c)' /\ Silent(c)'  BY <1>2, <1>3, <1>4, MailKept
<1>6. UNCHANGED <<total, offset, dpc>>  BY <1>1 DEF roundVars
<1>7. /\ KeepsUp(c) => KeepsUp(c)'
      /\ Follows(c) => Follows(c)'
  BY <1>1, <1>4, <1>6, KeepsUpKept, FollowsKept
<1>8. PICK p \in {"run", "ended"}, l \in {"queued", "none"} :
            /\ prog' = [prog EXCEPT ![c] = p] /\ link' = [link EXCEPT ![c] = l]
            /\ p = "ended" => l = "none" /\ (~Alive \/ ~running)
            /\ p = "run" => Alive
  <2>1. link = [link EXCEPT ![c] = "none"]  BY <1>2, <1>3 DEF Types
  <2> QED  BY <2>1 DEF Connect
<1>9. /\ prog' \in [Clients -> {"off", "run", "ended"}] /\ link' \in [Clients -> Links]
      /\ prog'[c] = p /\ link'[c] = l
      /\ \A d \in Clients \ {c} : prog'[d] = prog[d] /\ link'[d] = link[d]
  BY <1>2, <1>8 DEF Types, Links
<1>10. LinkInv(c)'  BY <1>5, <1>9 DEF LinkInv
<1>11. ASSUME NEW i \in Indices, Serves(i, c)  PROVE ConnInv(i, c)'
  <2>1. ~Alive  BY <1>3, <1>11, RunningIsUp
  <2> QED  BY <1>6, <2>1 DEF ConnInv, Alive
<1>12. /\ coffset' \in [Clients -> Clocks]
       /\ toClient' = [d \in Clients |-> toClient'[d]] /\ toDaemon' = [d \in Clients |-> toDaemon'[d]]
       /\ unset' \in SUBSET (Clients \cup {NoClient})
  BY <1>1, <1>2 DEF Types
<1> QED  BY <1>1, <1>4, <1>5, <1>7, <1>9, <1>10, <1>11, <1>12, ClientStep

\* A request is answered with the client's time, a correction is obeyed.
LEMMA HandleMessageInv == ASSUME Inv, NEW c \in Clients, HandleMessage(c) PROVE Inv'
<1>1. /\ UNCHANGED <<tableVars, running, roundVars, prog, link, synced, timeVars>>
      /\ UNCHANGED <<total, offset, now, age, slowest>>
      /\ prog[c] = "run" /\ toClient[c] # <<>>
      /\ toClient' = [toClient EXCEPT ![c] = Tail(toClient[c])]
  BY DEF HandleMessage, roundVars, timeVars
<1>2. /\ Types /\ Mail(c) /\ LinkInv(c) /\ Times' = Times
      /\ \A i \in Indices : Serves(i, c) => ~Due(i)
  BY <1>1, NotDue DEF Inv, Times, Earliest, Latest, Reading, Highest, Silent
<1>3. /\ toClient' = [d \in Clients |-> toClient'[d]] /\ toClient'[c] = Tail(toClient[c])
      /\ \A d \in Clients \ {c} : toClient'[d] = toClient[d]
  BY <1>1, <1>2, Updated DEF Types
<1>4. prog' \in [Clients -> {"off", "run", "ended"}] /\ link' \in [Clients -> Links]
  BY <1>1, <1>2 DEF Types
<1>5. Asked(c) \/ Corrected(c) \/ AskedAgain(c)  BY <1>1, <1>2 DEF Mail, Silent, Answered
<1>6. link[c] \notin {"none", "queued", "queuedfin"}  BY <1>1, <1>2 DEF LinkInv, Silent
<1>7. LinkInv(c)'  BY <1>1, <1>2, <1>6 DEF LinkInv
<1>8. CASE Asked(c)
  <2>1. PICK r \in Times : r = Reading(coffset[c]) /\ coffset[c] \in Clocks  BY <1>2, TimesDef DEF Types
  <2>2. toClient[c] = <<Request>> /\ toDaemon[c] = <<>>  BY <1>8 DEF Asked
  <2>3. /\ UNCHANGED <<coffset, unset>>
        /\ toDaemon' = IF link[c] = "closed" THEN toDaemon
                       ELSE [toDaemon EXCEPT ![c] = Append(toDaemon[c], r)]
    BY <2>1, <2>2, Sequences1 DEF HandleMessage, Request
  <2>4. PICK x : x \in {<<>>, <<r>>} /\ toDaemon' = [toDaemon EXCEPT ![c] = x]
    <3>1. toDaemon = [toDaemon EXCEPT ![c] = <<>>]  BY <1>2, <2>2 DEF Types
    <3>2. Append(toDaemon[c], r) = <<r>>  BY <2>2, Sequences1
    <3> QED  BY <2>3, <3>1, <3>2
  <2>5. /\ toDaemon' = [d \in Clients |-> toDaemon'[d]] /\ toDaemon'[c] = x
        /\ \A d \in Clients \ {c} : toDaemon'[d] = toDaemon[d]
    BY <1>2, <2>4, Updated DEF Types
  <2>6. toClient'[c] = <<>>  BY <1>3, <2>2, Sequences1
  <2>7. /\ coffset' \in [Clients -> Clocks] /\ unset' \in SUBSET (Clients \cup {NoClient})
        /\ Reading(coffset[c])' = r /\ r \in Int
    BY <1>1, <1>2, <2>1, <2>3, TimesDef DEF Types, Reading
  <2>8. Mail(c)'
    <3>1. CASE x = <<>>  BY <2>5, <2>6, <3>1 DEF Mail, Silent
    <3>2. CASE x = <<r>>
      <4>1. r \in Times' /\ r <= r  BY <1>2, <2>7
      <4>2. Answered(c)'  BY <2>5, <2>6, <2>7, <3>2, <4>1 DEF Answered
      <4> QED  BY <4>2 DEF Mail
    <3> QED  BY <2>4, <3>1, <3>2
  <2>9. ~Silent(c) /\ ~Corrected(c) /\ ~KeepsUp(c) /\ (Follows(c) => NoClient \in unset)
    BY <2>2, Sequences1 DEF Silent, Corrected, KeepsUp, Follows, Request, SyncTo
  <2>10. Follows(c) => Follows(c)'  BY <2>3, <2>9 DEF Follows
  <2>11. \A i \in Indices : Serves(i, c) => ConnInv(i, c)'
    BY <1>1, <1>2, <2>9, ReadingKeeps
  <2> QED  BY <1>1, <1>3, <1>4, <1>7, <2>3, <2>5, <2>7, <2>8, <2>9, <2>10, <2>11, ClientStep
<1>9. CASE Corrected(c) \/ AskedAgain(c)
  <2>1. PICK t \in Fits(coffset[c]) : toClient[c] = <<SyncTo(t)>> \/ toClient[c] = <<SyncTo(t), Request>>
    BY <1>9 DEF Corrected, AskedAgain
  <2>2. Head(toClient[c]) = SyncTo(t) /\ toDaemon[c] = <<>>
    BY <1>9, <2>1, Sequences1, Sequences2 DEF Corrected, AskedAgain
  <2>3. SyncTo(t).cmd = "TIME_SYNC" /\ SyncTo(t).time = t  BY DEF SyncTo
  <2>4. UNCHANGED toDaemon /\ corregir_tiempo(c, t)
    BY <2>2, <2>3 DEF HandleMessage
  <2>5. /\ coffset' \in [Clients -> Clocks] /\ unset' \in SUBSET (Clients \cup {NoClient})
        /\ \A d \in Clients \ {c} : coffset'[d] = coffset[d]
        /\ \A d \in (Clients \cup {NoClient}) \ {c} : d \in unset' <=> d \in unset
        /\ \/ c \in unset'
           \/ t * Second <= coffset'[c] + now /\ coffset'[c] + now <= t * Second + (Second - 1)
    BY <1>2, <2>4, TimeIsSet
  <2>6. toClient'[c] \in {<<>>, <<Request>>}
    <3>1. /\ Tail(<<SyncTo(t)>>) = <<>>
          /\ Tail(<<SyncTo(t), Request>>) = <<Request>>
      BY Sequences1, Sequences2, Zenon
    <3> QED  BY <1>3, <2>1, <3>1, Zenon
  <2>7. Mail(c)'  BY <2>2, <2>4, <2>6 DEF Mail, Silent, Asked
  <2>8. toDaemon' = [d \in Clients |-> toDaemon'[d]]  BY <1>2, <2>4 DEF Types
  <2>9. \A u : toClient[c] = <<SyncTo(u)>> => u = t /\ toClient'[c] = <<>>
    <3>1. \A u : SyncTo(u).time = u  BY DEF SyncTo
    <3> QED  BY <1>3, <2>1, <2>3, <3>1, Sequences1, Sequences2
  <2>10. Silent(c) \/ Corrected(c) => Silent(c)'
    BY <1>1, <2>2, <2>4, <2>9 DEF Silent, Corrected
  <2>11. \A i \in Indices : Serves(i, c) => ConnInv(i, c)'  BY <1>1, <1>2, <2>10, ReadingKeeps
  <2>12. /\ t \in Int /\ total \in Int /\ offset \in Int /\ age \in Int /\ age >= 0 /\ now \in Int
         /\ Second \in Int /\ t * Second \in Int /\ toClient[c] # <<>>
    BY <1>1, <1>2, TimesDef, Time, Counters DEF Fits
  <2>13. PICK p \in Int : p = coffset'[c]
    <3>1. coffset'[c] \in Clocks  BY <2>5
    <3> QED  BY <1>2, <3>1, Time
  <2>14. KeepsUp(c) => KeepsUp(c)'
    <3> SUFFICES ASSUME KeepsUp(c) PROVE KeepsUp(c)'  OBVIOUS
    <3>1. t = total /\ toClient'[c] = <<>>  BY <2>9, <2>12 DEF KeepsUp
    <3>2. CASE c \in unset'  BY <3>1, <3>2 DEF KeepsUp
    <3>3. CASE t * Second <= p + now /\ p + now <= t * Second + (Second - 1)
      <4>1. p + now <= t * Second + (Second - 1) + age  BY <2>12, <2>13, <3>3
      <4>2. Near(coffset[c], total)'  BY <1>1, <2>13, <3>1, <3>3, <4>1 DEF Near
      <4> QED  BY <3>1, <4>2 DEF KeepsUp
    <3> QED  BY <2>5, <2>13, <3>2, <3>3
  <2>15. Follows(c) => Follows(c)'
    <3> SUFFICES ASSUME Follows(c) PROVE Follows(c)'  OBVIOUS
    <3>1. CASE NoClient \in unset
      <4>1. NoClient \in unset'  BY <2>5, <3>1, BerkeleyAssumption
      <4> QED  BY <4>1 DEF Follows
    <3>2. CASE \E u \in Int : toClient[c] = <<SyncTo(u)>> /\ Near(offset, u)
      <4>1. Near(offset, t) /\ toClient'[c] = <<>>  BY <2>9, <3>2
      <4>2. CASE c \in unset'  BY <4>1, <4>2 DEF Follows
      <4>3. CASE t * Second <= p + now /\ p + now <= t * Second + (Second - 1)
        <5>1. t * Second <= offset + now /\ offset + now <= t * Second + (Second - 1) + age
          BY <4>1 DEF Near
        <5>2. p - (age + Second - 1) <= offset /\ offset <= p + (age + Second - 1)
          <6>1. \A k, x, s, a, w \in Int :
                    k <= p + w /\ p + w <= k + (s - 1) /\ k <= x + w /\ x + w <= k + (s - 1) + a /\ a >= 0
                    => p - (a + s - 1) <= x /\ x <= p + (a + s - 1)
            OBVIOUS
          <6> QED  BY <2>12, <4>3, <5>1, <6>1
        <5>3. Apart(coffset[c], offset)'  BY <1>1, <2>13, <5>2 DEF Apart
        <5> QED  BY <4>1, <5>3 DEF Follows
      <4> QED  BY <2>5, <2>13, <4>2, <4>3
    <3> QED  BY <2>12, <3>1, <3>2 DEF Follows
  <2> QED  BY <1>1, <1>3, <1>4, <1>7, <2>4, <2>5, <2>7, <2>8, <2>11, <2>14, <2>15, ClientStep
<1> QED  BY <1>5, <1>8, <1>9

\* A correction and the request behind it are read together: the request is lost.
LEMMA HandleGluedInv == ASSUME Inv, NEW c \in Clients, HandleGlued(c) PROVE Inv'
<1>1. /\ UNCHANGED <<tableVars, running, roundVars, prog, link, toDaemon, synced, timeVars>>
      /\ UNCHANGED <<total, offset, now, age, slowest>>
      /\ prog[c] = "run" /\ Len(toClient[c]) > 1
      /\ corregir_tiempo(c, Head(toClient[c]).time)
      /\ toClient' = [toClient EXCEPT ![c] = <<>>]
  BY DEF HandleGlued, roundVars, timeVars
<1>2. Types /\ Mail(c) /\ LinkInv(c)  BY DEF Inv
<1>3. /\ toClient' = [d \in Clients |-> toClient'[d]] /\ toClient'[c] = <<>>
      /\ \A d \in Clients \ {c} : toClient'[d] = toClient[d]
  BY <1>1, <1>2, Updated DEF Types
<1>4. /\ prog' \in [Clients -> {"off", "run", "ended"}] /\ link' \in [Clients -> Links]
      /\ toDaemon' = [d \in Clients |-> toDaemon'[d]]
  BY <1>1, <1>2 DEF Types
<1>5. toClient[c] # <<>> /\ \A a : toClient[c] # <<a>>
  <2>1. Len(<<>>) = 0 /\ \A a : Len(<<a>>) = 1  OBVIOUS
  <2>2. Len(toClient[c]) # 0 /\ Len(toClient[c]) # 1
    <3>1. ~(0 > 1) /\ ~(1 > 1)  OBVIOUS
    <3> QED  BY <1>1, <3>1, Zenon
  <2> QED  BY <2>1, <2>2, Zenon
<1>6. AskedAgain(c)  BY <1>2, <1>5 DEF Mail, Silent, Answered, Asked, Corrected
<1>7. PICK t \in Fits(coffset[c]) : toClient[c] = <<SyncTo(t), Request>>  BY <1>6 DEF AskedAgain
<1>8. Head(toClient[c]).time = t  BY <1>7, Sequences2 DEF SyncTo
<1>9. /\ coffset' \in [Clients -> Clocks] /\ unset' \in SUBSET (Clients \cup {NoClient})
      /\ \A d \in Clients \ {c} : coffset'[d] = coffset[d]
      /\ \A d \in (Clients \cup {NoClient}) \ {c} : d \in unset' <=> d \in unset
  BY <1>1, <1>2, <1>8, TimeIsSet
<1>10. Silent(c)' /\ Mail(c)'  BY <1>1, <1>3, <1>6 DEF Silent, Mail, AskedAgain
<1>11. LinkInv(c)'  BY <1>1, <1>2, <1>10 DEF LinkInv
<1>12. \A i \in Indices : Serves(i, c) => ConnInv(i, c)'
  BY <1>1, <1>5, <1>10, NotDue, ReadingKeeps DEF Silent
<1>13. ~KeepsUp(c) /\ (Follows(c) => Follows(c)')
  <2>1. ~KeepsUp(c) /\ (Follows(c) => NoClient \in unset)  BY <1>5 DEF KeepsUp, Follows
  <2>2. NoClient \in unset => NoClient \in unset'  BY <1>9, BerkeleyAssumption
  <2> QED  BY <2>1, <2>2 DEF Follows
<1> QED  BY <1>1, <1>3, <1>4, <1>9, <1>10, <1>11, <1>12, <1>13, ClientStep

\* The daemon has left the client.
LEMMA LoseConnectionInv == ASSUME Inv, NEW c \in Clients, LoseConnection(c) PROVE Inv'
<1>1. /\ UNCHANGED <<tableVars, running, roundVars, coffset, link, toClient, toDaemon, synced, unset, timeVars, now, age, slowest>>
      /\ prog[c] = "run" /\ toClient[c] = <<>> /\ link[c] = "closed"
      /\ prog' = [prog EXCEPT ![c] = "ended"]
  BY DEF LoseConnection, linkVars, timeVars
<1>2. Types /\ Looser /\ Mail(c)  BY <1>1, StillLooser DEF Inv
<1>3. SameMail(c)  BY <1>1, <1>2 DEF SameMail
<1>4. /\ prog' \in [Clients -> {"off", "run", "ended"}] /\ prog'[c] = "ended"
      /\ \A d \in Clients \ {c} : prog'[d] = prog[d]
  BY <1>1, <1>2 DEF Types
<1>5. /\ link' \in [Clients -> Links] /\ coffset' \in [Clients -> Clocks]
      /\ toClient' = [d \in Clients |-> toClient'[d]] /\ toDaemon' = [d \in Clients |-> toDaemon'[d]]
      /\ unset' \in SUBSET (Clients \cup {NoClient})
  BY <1>1, <1>2 DEF Types
<1>6. Mail(c)' /\ LinkInv(c)'  BY <1>1, <1>2, <1>3, <1>4, MailKept DEF LinkInv
<1>7. Silent(c) \/ Corrected(c) => Silent(c)'  BY <1>1, Sequences1 DEF Silent, Corrected
<1>8. \A i \in Indices : Serves(i, c) => ConnInv(i, c)'  BY <1>1, <1>7, ReadingKeeps
<1> QED  BY <1>1, <1>4, <1>5, <1>6, <1>8, ClientStep

\* The user ends the client, with mail in its socket or without.
LEMMA QuitInv == ASSUME Inv, NEW c \in Clients, Quit(c) PROVE Inv'
<1>1. /\ UNCHANGED <<tableVars, running, roundVars, coffset, toDaemon, synced, unset, timeVars, now, age, slowest>>
      /\ prog[c] = "run" /\ prog' = [prog EXCEPT ![c] = "ended"]
      /\ toClient' = [toClient EXCEPT ![c] = <<>>]
  BY DEF Quit, timeVars
<1>2. Types /\ Mail(c) /\ LinkInv(c)  BY DEF Inv
<1>3. /\ toClient' = [d \in Clients |-> toClient'[d]] /\ toClient'[c] = <<>>
      /\ \A d \in Clients \ {c} : toClient'[d] = toClient[d]
  BY <1>1, <1>2, Updated DEF Types
<1>4. /\ prog' \in [Clients -> {"off", "run", "ended"}] /\ prog'[c] = "ended"
      /\ \A d \in Clients \ {c} : prog'[d] = prog[d]
  BY <1>1, <1>2 DEF Types
<1>5. link[c] \in Links  BY <1>2 DEF Types
<1>6. PICK l \in Links : /\ link' = [link EXCEPT ![c] = l]
                         /\ l = link[c] \/ (link[c] = "queued" /\ l = "queuedfin")
                                        \/ (link[c] = "up" /\ l \in {"fin", "reset"})
  <2>1. CASE link[c] = "queued"
    <3>1. link' = [link EXCEPT ![c] = "queuedfin"]  BY <2>1 DEF Quit
    <3> QED  BY <2>1, <3>1 DEF Links
  <2>2. CASE link[c] = "up"
    <3>1. link' = [link EXCEPT ![c] = IF toClient[c] = <<>> THEN "fin" ELSE "reset"]  BY <2>2 DEF Quit
    <3> QED  BY <2>2, <3>1 DEF Links
  <2>3. CASE link[c] \notin {"queued", "up"}
    <3>1. link' = [link EXCEPT ![c] = link[c]]  BY <2>3 DEF Quit
    <3> QED  BY <1>5, <3>1
  <2> QED  BY <2>1, <2>2, <2>3
<1>7. /\ link' \in [Clients -> Links] /\ link'[c] = l
      /\ \A d \in Clients \ {c} : link'[d] = link[d]
  BY <1>2, <1>6 DEF Types
<1>8. /\ coffset' \in [Clients -> Clocks] /\ toDaemon' = [d \in Clients |-> toDaemon'[d]]
      /\ unset' \in SUBSET (Clients \cup {NoClient})
  BY <1>1, <1>2 DEF Types
<1>9. Mail(c)'
  <2>1. CASE Answered(c)
    <3>1. Times' = Times /\ Reading(coffset[c])' = Reading(coffset[c])
      BY <1>1 DEF Times, Earliest, Latest, Reading, Highest
    <3> QED  BY <1>1, <1>3, <2>1, <3>1 DEF Mail, Answered
  <2>2. CASE ~Answered(c)
    BY <1>1, <1>2, <1>3, <2>2 DEF Mail, Silent, Asked, Corrected, AskedAgain
  <2> QED  BY <2>1, <2>2
<1>10. Silent(c) \/ Corrected(c) => Silent(c)'  BY <1>1, <1>3 DEF Silent, Corrected
<1>11. LinkInv(c)'  BY <1>2, <1>4, <1>6, <1>7, <1>10 DEF LinkInv
<1>12. \A i \in Indices : Serves(i, c) => ConnInv(i, c)'  BY <1>1, <1>6, <1>7, <1>10, ReadingKeeps
<1> QED  BY <1>1, <1>3, <1>4, <1>7, <1>8, <1>9, <1>11, <1>12, ClientStep

-----------------------------------------------------------------------------
(***************************************************************************)
(* A step of time that leaves the mail as it is.                           *)
(***************************************************************************)
LEMMA TimePasses ==
    ASSUME Inv, now' = now + 1, now < MaxTime, age' \in 0..now', slowest' \in Int,
           UNCHANGED <<tableVars, running, roundVars, clientVars, linkVars, synced, unset>>,
           Clocks \subseteq Clocks', RoundInv', AgreeInv',
           \A c \in Clients : Mail(c)',
           \A c \in Clients : (Silent(c) => Silent(c)') /\ (Corrected(c) => Corrected(c)'),
           \A i \in Indices, c \in Clients :
                Serves(i, c) /\ Due(i) /\ Counted(coffset[c]) => Counted(coffset[c])'
    PROVE  Inv'
<1>1. /\ UNCHANGED <<slot, client_count, dpc, turn, total, valid_times, offset, prog, coffset>>
      /\ UNCHANGED <<link, toClient, toDaemon>>
  BY DEF tableVars, roundVars, clientVars, linkVars
<1>2. Types  BY DEF Inv
<1>3. now' \in 0..MaxTime  BY <1>2, Time, BerkeleyAssumption
<1>4. Types'  BY <1>1, <1>2, <1>3 DEF Types
<1>5. \A c \in Clients : LinkInv(c)'  BY <1>1 DEF Inv, LinkInv
<1>6. ASSUME NEW i \in Indices, NEW c \in Clients  PROVE ConnInv(i, c)'
  <2>1. ConnInv(i, c) /\ (Serves(i, c)' <=> Serves(i, c))  BY SlotsKept DEF Inv
  <2>2. (Due(i)' <=> Due(i)) /\ (Alive' <=> Alive)  BY <1>1 DEF Due, Alive
  <2> QED  BY <1>1, <2>1, <2>2 DEF ConnInv
<1> QED  BY <1>4, <1>5, <1>6, SlotsKept DEF Inv

\* Time passes.  Somebody holds a time: the bounds get wider.  Nobody does:
\* all clocks go on alike.
LEMMA TickInv == ASSUME Inv, Tick PROVE Inv'
<1>1. /\ UNCHANGED <<tableVars, running, roundVars, clientVars, linkVars, synced, unset>>
      /\ UNCHANGED <<slot, client_count, dpc, turn, total, valid_times, offset, prog, coffset>>
      /\ UNCHANGED <<link, toClient, toDaemon>>
      /\ now < MaxTime /\ now' = now + 1
      /\ age' = IF dpc = "correct" \/ \E c \in Clients : Unread(c) THEN age + 1 ELSE age
      /\ slowest' = IF TimesUnderWay THEN slowest - 1 ELSE slowest
  BY DEF Tick, tableVars, roundVars, clientVars, linkVars
<1>2. Types  BY DEF Inv
<1>3. /\ now \in Nat /\ age \in Nat /\ slowest \in Int /\ Highest \in Int /\ age <= now
      /\ Second \in Nat \ {0}
  BY <1>2, Time DEF Types
<1>4. /\ age' \in {age, age + 1} /\ age' \in 0..now'
      /\ slowest' \in Int /\ slowest' <= slowest /\ Highest' = Highest
  BY <1>1, <1>3 DEF Highest
<1>5. Clocks \subseteq Clocks'
  <2>1. Clocks' = slowest'..Highest  BY <1>4 DEF Clocks
  <2> QED  BY <1>2, <1>3, <1>4, <2>1, Time
<1>6. AgreeInv'
  <2>1. ASSUME NEW o \in Int, NEW t \in Int, Near(o, t), age' = age + 1
        PROVE  t * Second <= o + now' /\ o + now' <= t * Second + (Second - 1) + age'
    <3>1. t * Second <= o + now /\ o + now <= t * Second + (Second - 1) + age  BY <2>1 DEF Near
    <3>2. t * Second \in Int /\ Second \in Int  BY <1>3
    <3>3. \A k, w, s, a \in Int : k <= o + w /\ o + w <= k + (s - 1) + a
                => k <= o + (w + 1) /\ o + (w + 1) <= k + (s - 1) + (a + 1)
      OBVIOUS
    <3> QED  BY <1>1, <1>3, <2>1, <3>1, <3>2, <3>3
  <2>2. ASSUME NEW c \in Clients, Follows(c)  PROVE Follows(c)'
    <3>1. coffset[c] \in Int /\ offset \in Int  BY Counters
    <3>2. CASE NoClient \in unset  BY <1>1, <3>2 DEF Follows
    <3>3. CASE toClient[c] = <<>> /\ c \in unset  BY <1>1, <3>3 DEF Follows
    <3>4. CASE toClient[c] = <<>> /\ Apart(coffset[c], offset)
      <4>1. coffset[c] - (age + Second - 1) <= offset /\ offset <= coffset[c] + (age + Second - 1)
        BY <3>4 DEF Apart
      <4>2. coffset[c] - (age' + Second - 1) <= offset /\ offset <= coffset[c] + (age' + Second - 1)
        BY <1>3, <1>4, <3>1, <4>1
      <4>3. Apart(coffset[c], offset)'  BY <1>1, <4>2 DEF Apart
      <4> QED  BY <1>1, <3>4, <4>3 DEF Follows
    <3>5. CASE \E u \in Int : toClient[c] = <<SyncTo(u)>> /\ Near(offset, u)
      <4>1. PICK u \in Int : toClient[c] = <<SyncTo(u)>> /\ Near(offset, u)  BY <3>5
      <4>2. Unread(c)  BY <4>1, Sequences1 DEF Unread, SyncTo
      <4>3. age' = age + 1  BY <1>1, <4>2
      <4>4. u * Second <= offset + now' /\ offset + now' <= u * Second + (Second - 1) + age'
        BY <2>1, <3>1, <4>1, <4>3
      <4>5. Near(offset, u)'  BY <1>1, <4>4 DEF Near
      <4>6. toClient'[c] = <<SyncTo(u)>>  BY <1>1, <4>1
      <4> QED  BY <4>5, <4>6 DEF Follows, SyncTo
    <3> QED  BY <2>2, <3>2, <3>3, <3>4, <3>5 DEF Follows
  <2>3. ASSUME NEW c \in Clients, KeepsUp(c), dpc = "correct"  PROVE KeepsUp(c)'
    <3>1. coffset[c] \in Int /\ total \in Int /\ age' = age + 1  BY <1>1, <2>3, Counters
    <3>2. CASE toClient[c] = <<>> /\ c \in unset  BY <1>1, <3>2 DEF KeepsUp
    <3>3. CASE toClient[c] = <<>> /\ Near(coffset[c], total)
      <4>1. /\ total * Second <= coffset[c] + now'
            /\ coffset[c] + now' <= total * Second + (Second - 1) + age'
        BY <2>1, <3>1, <3>3
      <4>2. Near(coffset[c], total)'  BY <1>1, <4>1 DEF Near
      <4> QED  BY <1>1, <3>3, <4>2 DEF KeepsUp
    <3>4. CASE toClient[c] = <<SyncTo(total)>>  BY <1>1, <3>4 DEF KeepsUp, SyncTo
    <3> QED  BY <2>3, <3>2, <3>3, <3>4 DEF KeepsUp
  <2>4. \A i \in Indices : Corrects(i)' <=> Corrects(i)  BY <1>1 DEF Corrects, Active
  <2>5. \A i \in Indices : \A c : Serves(i, c)' <=> Serves(i, c)  BY <1>1, SlotsKept
  <2>6. synced \subseteq Clients  BY <1>2 DEF Types
  <2> QED  BY <1>1, <2>2, <2>3, <2>4, <2>5, <2>6 DEF Inv, AgreeInv
<1>7. CASE TimesUnderWay
  <2>1. slowest' = slowest - 1 /\ slowest' + now' = slowest + now  BY <1>1, <1>3, <1>7
  <2>2. Looser  BY <1>1, <1>3, <1>4, <2>1 DEF Looser
  <2>3. \A c \in Clients : SameMail(c)  BY <1>1, <2>2 DEF SameMail
  <2>4. \A c \in Clients : Mail(c)' /\ (Silent(c) => Silent(c)') /\ (Corrected(c) => Corrected(c)')
    BY <1>2, <2>3, MailKept DEF Inv
  <2>5. Earliest' = Earliest  BY <2>1 DEF Earliest, Reading
  <2>6. ASSUME NEW o \in Clocks, Counted(o)  PROVE Counted(o)'
    <3>1. CASE dpc \in {"ask", "wait"}
      <4>1. PICK r \in Int, s \in Int, hi \in Int, top \in Int :
                /\ r = Reading(o) /\ s = Reading(o)' /\ hi = Latest /\ top = Latest'
                /\ r <= s /\ hi <= top
        BY <1>2, <2>2, LooserTimes, TimesDef
      <4>2. total <= (valid_times - 1) * hi + r  BY <2>6, <3>1, <4>1 DEF Counted
      <4>3. valid_times \in Nat \ {0} /\ total \in Int  BY <3>1, Counters DEF Inv, RoundInv
      <4>4. total <= (valid_times - 1) * top + s  BY <4>1, <4>2, <4>3, SumBelow
      <4> QED  BY <1>1, <3>1, <4>1, <4>4 DEF Counted
    <3>2. CASE dpc = "correct"
      <4>1. total \in Fits(o)'  BY <1>2, <2>2, <2>6, <3>2, LooserTimes DEF Counted
      <4> QED  BY <1>1, <3>2, <4>1 DEF Counted
    <3>3. CASE dpc \notin {"ask", "wait", "correct"}  BY <1>1, <3>3 DEF Counted
    <3> QED  BY <3>1, <3>2, <3>3
  <2>7. RoundInv'
    <3>1. Counted(offset)'
      <4>1. PICK o \in Clocks : o = offset /\ o = offset'  BY <1>1, <1>2 DEF Types
      <4>2. Counted(o)'  BY <2>6, <4>1 DEF Inv, RoundInv
      <4> QED  BY <4>1, <4>2 DEF Counted, Fits, Reading
    <3>2. \A i \in Indices : Active(i)' <=> Active(i)  BY <1>1 DEF Active
    <3>3. dpc = "wait" => turn \in Indices  BY Counters DEF Inv, RoundInv, Indices
    <3> QED  BY <1>1, <2>5, <3>1, <3>2, <3>3 DEF Inv, RoundInv
  <2>8. \A i \in Indices, c \in Clients :
                Serves(i, c) /\ Due(i) /\ Counted(coffset[c]) => Counted(coffset[c])'
    <3>1. \A c \in Clients : coffset[c] \in Clocks /\ coffset'[c] = coffset[c]  BY <1>1, <1>2 DEF Types
    <3> QED  BY <2>6, <3>1, CountedKept
  <2> QED  BY <1>1, <1>4, <1>5, <1>6, <2>4, <2>7, <2>8, TimePasses
<1>8. CASE ~TimesUnderWay
  <2>1. dpc \notin {"ask", "wait", "correct"} /\ \A c \in Clients : Silent(c)
    BY <1>8 DEF TimesUnderWay, Silent
  <2>2. \A c \in Clients : Silent(c)' /\ Mail(c)'  BY <1>1, <2>1 DEF Silent, Mail
  <2>3. \A c \in Clients : ~Corrected(c)  BY <2>1, Sequences1 DEF Silent, Corrected
  <2>4. RoundInv'  BY <1>1, <2>1 DEF RoundInv, Counted
  <2>5. \A i \in Indices : ~Due(i)  BY <2>1 DEF Due
  <2> QED  BY <1>1, <1>4, <1>5, <1>6, <2>2, <2>3, <2>4, <2>5, TimePasses
<1> QED  BY <1>7, <1>8

-----------------------------------------------------------------------------
\* Every step keeps the invariant.
LEMMA NextInv == Inv /\ [Next]_vars => Inv'
<1> SUFFICES ASSUME Inv, [Next]_vars PROVE Inv'  OBVIOUS
<1>1. CASE Daemon
  <2>1. CASE Ask  BY <2>1, AskSkips, AskSends
  <2>2. CASE Correct  BY <2>2, CorrectSkips, CorrectSends
  <2> QED  BY <1>1, <2>1, <2>2, WakeUpAloneInv, WakeUpInv, GetTimeInv, GetNothingInv, AverageInv,
              SetTimeInv, CloseInv, AcceptInv DEF Daemon
<1>2. CASE Stop  BY <1>2, StopInv
<1>3. CASE Tick  BY <1>3, TickInv
<1>4. ASSUME NEW c \in Clients, Connect(c) \/ Client(c) \/ Quit(c)  PROVE Inv'
  BY <1>4, ConnectInv, HandleMessageInv, HandleGluedInv, LoseConnectionInv, QuitInv DEF Client
<1>5. CASE UNCHANGED vars
  <2>1. /\ UNCHANGED <<slot, client_count, running, dpc, turn, total, valid_times, offset>>
        /\ UNCHANGED <<prog, coffset, link, toClient, toDaemon, synced, unset, now, age, slowest>>
    BY <1>5 DEF vars, tableVars, roundVars, clientVars, linkVars, timeVars
  <2>2. UNCHANGED tableVars  BY <2>1 DEF tableVars
  <2>3. /\ Clocks' = Clocks /\ Earliest' = Earliest /\ (Counted(offset)' <=> Counted(offset))
        /\ Types /\ Looser
    BY <2>1, StillLooser DEF Inv, Clocks, Highest, Counted, Fits, Times, Earliest, Latest, Reading
  <2>4. Types'  BY <2>1, <2>3 DEF Types
  <2>5. \A c \in Clients : SameMail(c) /\ prog'[c] = prog[c] /\ link'[c] = link[c]
    BY <2>1, <2>3 DEF SameMail
  <2>6. \A c \in Clients : Mail(c)' /\ LinkInv(c)'  BY <2>3, <2>5, MailKept, LinkKept DEF Inv
  <2>7. ASSUME NEW i \in Indices, NEW c \in Clients  PROVE ConnInv(i, c)'
    <3>1. ConnInv(i, c) /\ (Serves(i, c)' <=> Serves(i, c))  BY <2>2, SlotsKept DEF Inv
    <3>2. (Due(i)' <=> Due(i)) /\ (Alive' <=> Alive)  BY <2>1 DEF Due, Alive
    <3>3. Counted(coffset[c]) => Counted(coffset[c])'
      <4>1. coffset[c] \in Clocks /\ coffset'[c] = coffset[c]  BY <2>1, <2>3 DEF Types
      <4>2. \A o \in Clocks : Counted(o) => Counted(o)'  BY <2>1, SumKept
      <4> QED  BY <4>1, <4>2, CountedKept
    <3> QED  BY <2>1, <2>3, <2>5, <3>1, <3>2, <3>3, ConnKept
  <2>8. RoundInv'  BY <2>1, <2>3 DEF Inv, RoundInv, Active
  <2>9. AgreeInv'
    <3>1. \A c \in Clients : (Follows(c)' <=> Follows(c)) /\ (KeepsUp(c)' <=> KeepsUp(c))
      BY <2>1, <2>5, FollowsKept, KeepsUpKept
    <3>2. \A i \in Indices : Corrects(i)' <=> Corrects(i)  BY <2>1 DEF Corrects, Active
    <3>3. \A i \in Indices : \A c : Serves(i, c)' <=> Serves(i, c)  BY <2>2, SlotsKept
    <3>4. synced \subseteq Clients  BY DEF Inv, Types
    <3> QED  BY <2>1, <3>1, <3>2, <3>3, <3>4 DEF Inv, AgreeInv
  <2> QED  BY <2>2, <2>4, <2>6, <2>7, <2>8, <2>9, SlotsKept DEF Inv
<1> QED  BY <1>1, <1>2, <1>3, <1>4, <1>5 DEF Next

LEMMA AlwaysInv == Spec => []Inv
BY InitInv, NextInv, PTL DEF Spec

\* What the mail of a client is bounds its length.
LEMMA MailIsShort ==
    ASSUME Inv, NEW c \in Clients
    PROVE  Len(toClient[c]) <= 2 /\ Len(toDaemon[c]) <= 1
<1>1. /\ Len(<<>>) = 0 /\ \A a : Len(<<a>>) = 1
      /\ \A a, b : Len(<<a, b>>) = 2
  OBVIOUS
<1>2. \/ toClient[c] = <<>> \/ (\E a : toClient[c] = <<a>>) \/ (\E a, b : toClient[c] = <<a, b>>)
  BY DEF Inv, Mail, Silent, Answered, Asked, Corrected, AskedAgain
<1>3. toDaemon[c] = <<>> \/ \E a : toDaemon[c] = <<a>>
  BY DEF Inv, Mail, Silent, Answered, Asked, Corrected, AskedAgain
<1>4. Len(toClient[c]) \in {0, 1, 2} /\ Len(toDaemon[c]) \in {0, 1}  BY <1>1, <1>2, <1>3, Zenon
<1>5. (\A n \in {0, 1, 2} : n <= 2) /\ (\A n \in {0, 1} : n <= 1)  OBVIOUS
<1> QED  BY <1>4, <1>5, Zenon

(***************************************************************************)
(* Whatever the faults, the variables of the daemon and of the clients     *)
(* have their types, and a connection carries at most a correction with a  *)
(* request behind it and one answer.                                       *)
(***************************************************************************)
THEOREM TypeCorrect == Spec => []TypeOK
<1>1. Inv => TypeOK
  <2> SUFFICES ASSUME Inv PROVE TypeOK  OBVIOUS
  <2>1. Types  BY DEF Inv
  <2>2. Clocks \subseteq Int  BY <2>1, Time
  <2>3. \A c \in Clients : Len(toClient[c]) <= 2 /\ Len(toDaemon[c]) <= 1  BY MailIsShort
  <2>4. coffset \in [Clients -> Int] /\ offset \in Int  BY <2>1, <2>2 DEF Types
  <2> QED  BY <2>1, <2>3, <2>4 DEF TypeOK, Types, Slots
<1> QED  BY <1>1, AlwaysInv, PTL

(***************************************************************************)
(* The answer that request_client_time receives is the answer to its own   *)
(* request: a client that answers after the three seconds has lost its     *)
(* slot, so its late answer is never taken for one of a later round.       *)
(***************************************************************************)
THEOREM AnswersInTheirRound == Spec => []AnswersBelongToTheRound
<1>1. Inv => AnswersBelongToTheRound
  <2> SUFFICES ASSUME Inv, NEW i \in Indices, Active(i), Alive, ~(dpc = "wait" /\ turn = i)
      PROVE toDaemon[slot[i].socket] = <<>>
    BY DEF AnswersBelongToTheRound
  <2>1. PICK c \in Clients : Serves(i, c)  BY DEF Inv, SlotInv, Serves
  <2>2. ConnInv(i, c)  BY DEF Inv
  <2>3. Silent(c) \/ Corrected(c)  BY <2>1, <2>2 DEF ConnInv
  <2> QED  BY <2>1, <2>3 DEF Serves, Silent, Corrected
<1> QED  BY <1>1, AlwaysInv, PTL

(***************************************************************************)
(* synchronize_time and corregir_tiempo only bring clocks together,        *)
(* although they compute with whole seconds and keep tv_usec: no clock is  *)
(* ever ahead of the fastest one at the start, nor behind the slowest by   *)
(* more than the time that times were on their way and the fraction that   *)
(* every average cuts off.                                                 *)
(***************************************************************************)
THEOREM ClocksInRange == Spec => []ClocksStayInRange
<1>1. Inv => ClocksStayInRange
  <2> SUFFICES ASSUME Inv PROVE ClocksStayInRange  OBVIOUS
  <2>1. Types  BY DEF Inv
  <2>2. offset \in Clocks /\ \A c \in Clients : coffset[c] \in Clocks  BY <2>1 DEF Types
  <2> QED  BY <2>1, <2>2, Time DEF ClocksStayInRange
<1> QED  BY <1>1, AlwaysInv, PTL

(***************************************************************************)
(* After a round, a corrected client that has read send_time_sync's        *)
(* message agrees with the daemon's clock up to less than a second and the *)
(* age of the average, if settimeofday did not fail for one of them.       *)
(***************************************************************************)
THEOREM CorrectedAgree == Spec => []CorrectedClientsAgree
<1>1. Inv => CorrectedClientsAgree
  <2> SUFFICES ASSUME Inv, dpc = "sleep", NoClient \notin unset, NEW c \in synced \ unset,
                      prog[c] = "run", toClient[c] = <<>>
               PROVE  /\ coffset[c] - (age + Second - 1) <= offset
                      /\ offset <= coffset[c] + (age + Second - 1)
    BY DEF CorrectedClientsAgree
  <2>1. Follows(c)  BY DEF Inv, AgreeInv
  <2>2. \A a : <<a>> # <<>>  BY Sequences1
  <2>3. Apart(coffset[c], offset)  BY <2>1, <2>2 DEF Follows
  <2> QED  BY <2>3 DEF Apart
<1> QED  BY <1>1, AlwaysInv, PTL
=============================================================================
