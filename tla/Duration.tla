-------------------------------- MODULE Duration --------------------------------
(***************************************************************************)
(* The durations a requester may ask freshness by (verdict.rs,             *)
(* duration_to_ms): a text is taken apart from the left, at the first of   *)
(* each letter.  A text is a sequence of characters; lengths are in        *)
(* hundredths of a second, and f64 is exact as far as the model goes.      *)
(* Beside the parser stand the texts it is meant to read.                  *)
(***************************************************************************)
EXTENDS Integers, Sequences, SequencesExt

Hundredth == 1
Second == 100 * Hundredth
Minute == 60 * Second
Hour == 60 * Minute
Day == 24 * Hour

Letter == {"P", "D", "T", "H", "M", "S"}
Digit == [c \in {"0", "1"} |-> IF c = "0" THEN 0 ELSE 1]
Char == Letter \cup DOMAIN Digit \cup {"."}

NoBudget == -1

----------------------------------------------------------------------------
Digits(n) == ToSet(n) \subseteq DOMAIN Digit

Whole(n) ==
    LET value[i \in 0..Len(n)] == IF i = 0 THEN 0 ELSE 10 * value[i - 1] + Digit[n[i]]
    IN value[Len(n)]

(* Place of the first c in a text, 0 if there is none.                     *)
First(text, c) == IF c \in ToSet(text) THEN Min({i \in 1..Len(text) : text[i] = c}) ELSE 0
Until(text, i) == SubSeq(text, 1, i - 1)
From(text, i) == SubSeq(text, i + 1, Len(text))

(* A decimal has one point at most, and a digit.  Bound: two places count. *)
IsDecimal(n) ==
    /\ \E i \in 1..Len(n) : n[i] # "."
    /\ \A i, j \in 1..Len(n) : (n[i] = "." /\ n[j] = ".") => i = j

Decimal(n) ==
    LET point == First(n, ".")
        places == IF point = 0 THEN <<>> ELSE From(n, point)
        whole == IF point = 0 THEN n ELSE Until(n, point)
    IN 100 * Whole(whole) + Whole(SubSeq(places \o <<"0", "0">>, 1, 2))

(* nH and nM, each at most once and in this order; what does not begin     *)
(* with one is left for the next.                                          *)
Unread(sum, rest) == [sum |-> sum, rest |-> rest]

Take(unread, c, unit) ==
    LET i == First(unread.rest, c)
    IN IF i > 1 /\ Digits(Until(unread.rest, i))
       THEN Unread(unread.sum + Whole(Until(unread.rest, i)) * unit, From(unread.rest, i))
       ELSE unread

TakeHoursAndMinutesSwapped(time) == Take(Take(Unread(0, time), "M", Minute), "H", Hour)
TakeHoursAndMinutes(time) == Take(Take(Unread(0, time), "H", Hour), "M", Minute)

(* nS comes last.                                                          *)
TimeToMs(time) ==
    LET left == TakeHoursAndMinutes(time)
        n == SubSeq(left.rest, 1, Len(left.rest) - 1)
    IN IF left.rest = <<>> THEN left.sum
       ELSE IF First(left.rest, "S") = Len(left.rest) /\ ToSet(n) \subseteq DOMAIN Digit \cup {"."}
                 /\ IsDecimal(n)
       THEN left.sum + Decimal(n)
       ELSE NoBudget

(* The D is mandatory when there is a day, the number before it is not.    *)
DaysToMs(days) ==
    LET n == SubSeq(days, 1, Len(days) - 1)
    IN IF days = <<>> THEN 0
       ELSE IF days[Len(days)] = "D" /\ Digits(n) THEN Whole(n) * Day ELSE NoBudget

DurationToMs(text) ==
    LET body == Tail(text)
        t == First(body, "T")
        days == DaysToMs(IF t = 0 THEN body ELSE Until(body, t))
        time == IF t = 0 THEN 0 ELSE TimeToMs(From(body, t))
    IN IF text = <<>> \/ text[1] # "P" \/ body = <<>> \/ NoBudget \in {days, time}
       THEN NoBudget ELSE days + time

----------------------------------------------------------------------------
(* The texts of the grammar and what each says: P, days if there are any,  *)
(* and T, hours, minutes and seconds if there are any, where not both days *)
(* and T are missing.  Spelled over the numbers it is given.               *)
Part(numbers, c, unit) ==
    {<<<<>>, 0>>} \cup {<<n \o <<c>>, Whole(n) * unit>> : n \in numbers}

Spelled(numbers, decimals) ==
    LET day == Part(numbers \cup {<<>>}, "D", Day)
        seconds == {<<<<>>, 0>>} \cup {<<n \o <<"S">>, Decimal(n)>> : n \in decimals}
        time == {<<<<"T">> \o h[1] \o m[1] \o s[1], h[2] + m[2] + s[2]>> :
                    h \in Part(numbers, "H", Hour), m \in Part(numbers, "M", Minute), s \in seconds}
    IN {<<<<"P">> \o d[1] \o t[1], d[2] + t[2]>> : d \in day, t \in time \cup {<<<<>>, 0>>}}
         \ {<<<<"P">>, 0>>}
=============================================================================
