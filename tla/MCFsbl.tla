------------------------------- MODULE MCFsbl -------------------------------
\* Small images for Ssbl and FsblLoader: a family of headers, taken in pairs,
\* and images for execution in place.
EXTENDS Ssbl

Header(type, enc, md5, rsa, load, exec0, intact) ==
  [header |-> "good", type |-> type, fsbl |-> TRUE, enc |-> enc, md5 |-> md5, rsa |-> rsa,
   load |-> load, exec |-> exec0, intact |-> intact]
Plain(load, exec0) == Header("ps", FALSE, FALSE, FALSE, load, exec0, TRUE)

EndOfTable == [Plain("zero", "zero") EXCEPT !.header = "last"]
Fsbl == Plain("zero", "ram")

\* The combinations of attributes, each intact and, where it is protected,
\* altered.
Family ==
  {Header(t, e, p[1], p[2], "ddr", "ram", TRUE) :
     t \in {"ps", "pl"}, e \in BOOLEAN, p \in BOOLEAN \X BOOLEAN}
  \cup {Header(t, e, ~r, r, "ddr", "ram", FALSE) : t \in {"ps", "pl"}, e, r \in BOOLEAN}

\* Headers that leave the loop, or the partition, early.
Special ==
  {[Plain("ddr", "ram") EXCEPT !.header = "bad"], [Plain("ddr", "ram") EXCEPT !.fsbl = FALSE],
   Plain("zero", "ram"), Plain("low", "ram"), Plain("plram", "zero"), Plain("ddr", "zero"),
   Header("ps", TRUE, FALSE, TRUE, "zero", "ram", TRUE)}

Table(f) == [k \in 0 .. MaxPart - 1 |->
               IF k = 0 THEN Fsbl ELSE IF k \in DOMAIN f THEN f[k] ELSE EndOfTable]

Pairs == {Table(<<a, b>>) : a, b \in Family \cup Special}

\* With and without a bitstream before or behind the SSBL, text and data in
\* either order.
XipImages ==
  LET bits == Header("pl", FALSE, FALSE, TRUE, "zero", "zero", TRUE)
      ssbl == {Header("ps", FALSE, FALSE, r, "ocmhigh", "ram", i) : r, i \in BOOLEAN}
      text == {Header("ps", FALSE, FALSE, r, "qspi", "qspi", i) : r, i \in BOOLEAN}
      data == {Header("ps", FALSE, m, FALSE, "ocm", "zero", i) : m, i \in BOOLEAN}
  IN UNION {{Table(<<s, t, d>>), Table(<<s, d, t>>),
             Table(<<bits, s, t, d>>), Table(<<s, bits, t, d>>)} :
              s \in ssbl, t \in text, d \in data}

Full == [k \in 0 .. MaxPart - 1 |-> Plain("ddr", "ram")]

MCMaxPart == 6
MCImages == Pairs \cup XipImages \cup {Full, Table(<<>>)}

Usual == [ddr |-> TRUE, linear |-> TRUE, warm |-> FALSE, encOnly |-> FALSE, fuse |-> "clear",
          rsaSupport |-> TRUE, readErrors |-> FALSE]
MCBoots ==
  {Usual, [Usual EXCEPT !.linear = FALSE], [Usual EXCEPT !.readErrors = TRUE],
   [Usual EXCEPT !.linear = FALSE, !.readErrors = TRUE, !.fuse = "simulated"],
   [Usual EXCEPT !.warm = TRUE], [Usual EXCEPT !.encOnly = TRUE],
   [Usual EXCEPT !.rsaSupport = FALSE, !.fuse = "blown"],
   [Usual EXCEPT !.rsaSupport = FALSE],
   [Usual EXCEPT !.ddr = FALSE],
   [Usual EXCEPT !.ddr = FALSE, !.readErrors = TRUE, !.fuse = "simulated"]}
=============================================================================
