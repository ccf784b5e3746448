-------------------------------- MODULE Text ---------------------------------
(***************************************************************************)
(* The ASCII codes of the characters that formats, numbers and messages    *)
(* are written with, and exact fractions for the values of floating-point  *)
(* numbers.                                                                *)
(***************************************************************************)
EXTENDS Integers, Sequences, SequencesExt

Ascii == <<" ","!","quote","#","$","%","&","'","(",")","*","+",",","-",".","/",
           "0","1","2","3","4","5","6","7","8","9",":",";","<","=",">","?",
           "@","A","B","C","D","E","F","G","H","I","J","K","L","M","N","O",
           "P","Q","R","S","T","U","V","W","X","Y","Z","[","backslash","]","^","_",
           "grave","a","b","c","d","e","f","g","h","i","j","k","l","m","n","o",
           "p","q","r","s","t","u","v","w","x","y","z","{","|","}","~">>

ByteOf == [c \in {Ascii[i] : i \in 1 .. Len(Ascii)} |->
              31 + (CHOOSE i \in 1 .. Len(Ascii) : Ascii[i] = c)]

Bytes(chars) == [i \in 1 .. Len(chars) |-> ByteOf[chars[i]]]

Pow(b, n) == FoldLeft(LAMBDA p, i : p * b, 1, [i \in 1 .. n |-> i])

(* Fractions n / d with d > 0.                                             *)
Frac(n, d) == [n |-> n, d |-> d]

Times(q, k) == Frac(q.n * k, q.d)

Over(q, k) == Frac(q.n, q.d * k)

Whole(q) == q.n \div q.d

Less(q, r) == q.n * r.d < r.n * q.d

Same(q, r) == q.n * r.d = r.n * q.d

(* 10^x times q.                                                           *)
Shifted(q, x) == IF x >= 0 THEN Times(q, Pow(10, x)) ELSE Over(q, Pow(10, -x))

(* The integer nearest to q, the even one of two.                          *)
NearestEven(q) ==
    LET w == Whole(q)
        r == 2 * (q.n - w * q.d)
    IN  IF r > q.d \/ (r = q.d /\ w % 2 = 1) THEN w + 1 ELSE w
=============================================================================
