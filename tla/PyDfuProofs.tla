------------------------------ MODULE PyDfuProofs -----------------------------
(***************************************************************************)
(* Proofs about PyDfu: what pydfu.py erases and programs is an update as   *)
(* FlashUpdate promises it, and "finished" means written, for every layout *)
(* of the flash, transfer size, command line and fault.                    *)
(* FilesRead, the hypothesis, is what TLC evaluates on the files of a run: *)
(* that the parser's folds make of a well-formed file what it declares.    *)
(***************************************************************************)
EXTENDS PyDfu, TLAPS

Ops == {"mass", "erase", "addr", "data", "jump"}
Piece == {"chunk", "addr", "data"}
Writing == {"write", "erase"} \cup Piece
Closing == {"leave", "end", "finished"}

Commands == [op : {"none", "mass", "erase", "addr", "data", "leave"}, at : Nat, n : Nat]

DeviceType ==
  /\ dev \in {"dfuIDLE", "dnIDLE", "upIDLE", "error", "dnSYNC", "dnBUSY", "manSYNC", "gone"}
  /\ pend \in Commands /\ ptr \in Nat /\ mem \in [Memory -> Int]

HostType ==
  /\ job \in [mass : BOOLEAN, path : BOOLEAN, exit : BOOLEAN, file : Files]
  /\ tool \in Ends \cup {"init", "read", "leave", "end"} \cup Ops \cup Writing
  /\ pos \in [elem : Nat \ {0}, off : Nat, wsize : Nat, xfer : Nat, exits : {0, 1}]

-----------------------------------------------------------------------------
(* A command under way does only what an update may: also one that an      *)
(* earlier run of the tool left.                                           *)
Fits(a, m) == a \in Image /\ m[a] \in {Erased, a}

Safe(c, p, m) ==
  /\ c.op = "erase" /\ c.at \in Memory => (job.mass \/ PageOf(c.at) \cap Claimed # {})
  /\ c.op = "mass" => job.mass
  /\ c.op = "data" => c.at = p /\ \A a \in Memory \cap (p .. (p + c.n - 1)) : Fits(a, m)

Pending ==
  /\ dev \in {"dnSYNC", "dnBUSY"} => Safe(pend, ptr, mem)
  /\ dev = "dnBUSY" => Valid(pend)

(* What an operation sends, and where tool and bootloader are in it.       *)
Sends(t, c) ==
  /\ t = "mass" => c.op = "mass"
  /\ t = "erase" => c.op = "erase" /\ c.at = page_addr(Here)
  /\ t = "addr" => c.op = "addr" /\ c.at = Here + pos.xfer
  /\ t = "data" => c.op = "data" /\ c.at = Here + pos.xfer /\ c.n = chunk
  /\ t = "jump" => c.op = "addr"

InStep ==
  /\ tool \in Ops =>
       /\ step \in {"send", "execute", "check"}
       /\ step = "execute" => dev \in {"dnSYNC", "gone"}
       /\ step = "check" => dev \in {"dnBUSY", "gone"}
       /\ step \in {"execute", "check"} => Sends(tool, pend)
  /\ tool = "leave" => step \in {"send", "status"} /\ (step = "status" => dev \in {"manSYNC", "gone"})
  /\ tool \in Closing /\ job.path => dev \notin {"dnSYNC", "dnBUSY"}

(* Where main is in its elements, pieces and transfers.                    *)
Size == Elements[pos.elem].size

(* A piece does not start within a page it does not erase from the start.  *)
Aligned == job.mass \/ pos.off = 0 \/ Here \notin Memory \/ page_addr(Here) = Here

InPiece ==
  /\ pos.elem \in DOMAIN Elements /\ pos.off < Size
  /\ pos.wsize > 0 /\ pos.off + pos.wsize <= Size
  /\ \/ pos.off + pos.wsize = Size
     \/ ~job.mass /\ Here \in Memory /\ Here + pos.wsize = page_addr(Here) + page_size(Here)
  /\ ~job.mass /\ Here \in Memory => Here + pos.wsize <= page_addr(Here) + page_size(Here)
  /\ pos.xfer > 0 => Here \in Memory /\ pos.xfer <= xfer_total

InFile ==
  /\ tool = "mass" => job.mass
  /\ tool = "read" => job.path
  /\ tool \in {"init", "mass", "read"} => pos.elem = 1 /\ pos.off = 0
  /\ tool \in Writing =>
       /\ job.path
       /\ pos.elem \in DOMAIN Elements /\ pos.off < Size => Aligned
  /\ tool \in {"erase"} \cup Piece => InPiece
  /\ tool = "erase" => ~job.mass /\ Here \in Memory /\ pos.xfer = 0
  /\ tool \in {"addr", "data"} => pos.xfer < xfer_total
  /\ tool = "data" => ptr = Here + pos.xfer /\ ptr \in Memory
  /\ tool \in {"jump"} \cup Closing /\ job.path => pos.elem > Len(Elements)

-----------------------------------------------------------------------------
(* What is still to be written of a piece is erased; after a mass erase    *)
(* every cell is, or holds what is its own.                                *)
Fresh ==
  /\ job.mass /\ dev # "gone" /\ tool \in {"read", "write"} \cup Piece =>
       \A a \in Memory : mem[a] \in {Erased, a}
  /\ ~job.mass /\ dev # "gone" /\ tool \in Piece /\ Here \in Memory =>
       \A a \in Memory \cap ((Here + pos.xfer) .. (Here + pos.wsize - 1)) : mem[a] \in {Erased, a}

(* The bytes of element k that no later one erases, and those it is past.  *)
Kept(k, a) ==
  /\ a \in Memory \cap Data(Elements[k])
  /\ job.mass \/ \A l \in DOMAIN Elements : l > k => PageOf(a) \cap Claims(Elements[l]) = {}

Past(k, a) ==
  \/ k < pos.elem
  \/ k = pos.elem /\ a < Elements[k].addr + pos.off + (IF tool \in Piece THEN pos.xfer ELSE 0)

WrittenSoFar ==
  /\ job.path /\ tool \in Writing \cup {"jump"} \cup Closing
  /\ dev = "gone" => tool \in Closing
  => \A k \in DOMAIN Elements : \A a \in Memory : Kept(k, a) /\ Past(k, a) => mem[a] = a

IInv == DeviceType /\ HostType /\ Pending /\ InStep /\ InFile /\ Fresh /\ WrittenSoFar

-----------------------------------------------------------------------------
(* Pages.  A quotient and a remainder are what they must be.               *)
LEMMA TimesMonotone ==
  ASSUME NEW a \in Nat, NEW b \in Nat, NEW k \in Nat, a <= b
  PROVE  a * k <= b * k
OBVIOUS

(* A remainder is the only one.                                            *)
LEMMA DivUnique ==
  ASSUME NEW k \in Nat \ {0}, NEW d \in Nat, NEW r \in 0 .. (k - 1)
  PROVE  (d * k + r) % k = r
<1> DEFINE x == d * k + r
           e == x \div k
           q == x % k
<1>1. x \in Nat
  OBVIOUS
<1>2. e \in Nat /\ q \in 0 .. (k - 1) /\ x = e * k + q
  BY <1>1
<1> HIDE DEF e, q
<1>3. CASE d + 1 <= e
  <2>1. (d + 1) * k <= e * k  BY <1>2, <1>3, TimesMonotone
  <2> QED  BY <1>2, <2>1
<1>4. CASE e + 1 <= d
  <2>1. (e + 1) * k <= d * k  BY <1>2, <1>4, TimesMonotone
  <2> QED  BY <1>2, <2>1
<1>5. e = d
  BY <1>2, <1>3, <1>4
<1> QED
  BY <1>2, <1>5 DEF q

(* A multiple of k that is not above x is not above x rounded down.        *)
LEMMA RoundDown ==
  ASSUME NEW k \in Nat \ {0}, NEW x \in Nat
  PROVE  /\ x % k \in 0 .. (k - 1) /\ x - (x % k) \in Nat
         /\ \A y \in Nat : y % k = 0 =>
              /\ y <= x => y <= x - (x % k)
              /\ x < y => x - (x % k) + k <= y
         /\ \A r \in 0 .. (k - 1) : (x - (x % k) + r) % k = r
<1> DEFINE q == x \div k
<1>1. q \in Nat /\ x % k \in 0 .. (k - 1) /\ x = q * k + (x % k)
  OBVIOUS
<1>2. \A r \in 0 .. (k - 1) : (x - (x % k) + r) % k = r
  <2> TAKE r \in 0 .. (k - 1)
  <2>1. (q * k + r) % k = r  BY <1>1, DivUnique
  <2>2. x - (x % k) = q * k  BY <1>1
  <2> QED  BY <2>1, <2>2
<1>3. ASSUME NEW y \in Nat, y % k = 0
      PROVE  /\ y <= x => y <= x - (x % k)
             /\ x < y => x - (x % k) + k <= y
  <2> DEFINE p == y \div k
  <2>1. p \in Nat /\ y = p * k  BY <1>3
  <2> HIDE DEF p, q
  <2>2. ASSUME y <= x PROVE y <= q * k
    <3>1. CASE q + 1 <= p
      <4>1. (q + 1) * k <= p * k  BY <1>1, <2>1, <3>1, TimesMonotone
      <4> QED  BY <1>1, <2>1, <2>2, <4>1
    <3>2. CASE p <= q
      <4>1. p * k <= q * k  BY <1>1, <2>1, <3>2, TimesMonotone
      <4> QED  BY <2>1, <4>1
    <3> QED  BY <1>1, <2>1, <3>1, <3>2
  <2>3. ASSUME x < y PROVE q * k + k <= y
    <3>1. CASE q + 1 <= p
      <4>1. (q + 1) * k <= p * k  BY <1>1, <2>1, <3>1, TimesMonotone
      <4> QED  BY <1>1, <2>1, <4>1
    <3>2. CASE p <= q
      <4>1. p * k <= q * k  BY <1>1, <2>1, <3>2, TimesMonotone
      <4> QED  BY <1>1, <2>1, <2>3, <4>1
    <3> QED  BY <1>1, <2>1, <3>1, <3>2
  <2> QED  BY <1>1, <2>2, <2>3
<1> QED  BY <1>1, <1>2, <1>3

(* The segment of an address, which is the same for the whole of its page. *)
LEMMA SegmentOf ==
  ASSUME NEW a \in Memory
  PROVE  \E s \in get_memory_layout :
           /\ a \in s.addr .. s.last_addr
           /\ \A b \in s.addr .. s.last_addr : b \in Memory /\ page_size(b) = s.page_size
<1>1. PICK s \in get_memory_layout : a \in s.addr .. s.last_addr
  BY DEF Memory
<1>2. ASSUME NEW b \in s.addr .. s.last_addr
      PROVE  b \in Memory /\ page_size(b) = s.page_size
  <2>1. s \in Holding(b)  BY <1>1, <1>2, LayoutAssumption DEF Holding
  <2>2. \A r \in Holding(b) : r = s
    BY <1>1, <1>2, <2>1, LayoutAssumption DEF Holding
  <2>3. (CHOOSE r \in Holding(b) : TRUE) = s  BY <2>1, <2>2
  <2> QED  BY <1>1, <1>2, <2>3 DEF Memory, page_size
<1> QED  BY <1>1, <1>2

(* A page lies within the flash, and is the page of each of its addresses. *)
LEMMA PageFacts ==
  ASSUME NEW a \in Memory
  PROVE  /\ a \in Nat /\ page_addr(a) \in Nat /\ page_size(a) \in Nat \ {0}
         /\ page_addr(a) <= a /\ a < page_addr(a) + page_size(a)
         /\ \A b \in PageOf(a) : b \in Memory /\ page_addr(b) = page_addr(a) /\ PageOf(b) = PageOf(a)
<1>1. PICK s \in get_memory_layout :
        /\ a \in s.addr .. s.last_addr
        /\ \A b \in s.addr .. s.last_addr : b \in Memory /\ page_size(b) = s.page_size
  BY SegmentOf
<1> DEFINE k == s.page_size
<1>2. /\ s.addr \in Nat /\ s.last_addr \in Nat /\ k \in Nat \ {0}
      /\ s.addr % k = 0 /\ (s.last_addr + 1) % k = 0
  BY <1>1, LayoutAssumption
<1>3. a \in Nat /\ page_size(a) = k /\ page_addr(a) = a - (a % k)
  BY <1>1, <1>2 DEF page_addr
<1> HIDE DEF k
<1>4. /\ a % k \in 0 .. (k - 1) /\ a - (a % k) \in Nat
      /\ s.addr <= a - (a % k) /\ a - (a % k) + k <= s.last_addr + 1
      /\ \A r \in 0 .. (k - 1) : (a - (a % k) + r) % k = r
  <2>1. /\ a % k \in 0 .. (k - 1) /\ a - (a % k) \in Nat
        /\ \A y \in Nat : y % k = 0 =>
             /\ y <= a => y <= a - (a % k)
             /\ a < y => a - (a % k) + k <= y
        /\ \A r \in 0 .. (k - 1) : (a - (a % k) + r) % k = r
    BY <1>2, <1>3, RoundDown
  <2>2. s.last_addr + 1 \in Nat /\ s.addr <= a /\ a < s.last_addr + 1
    BY <1>1, <1>2, <1>3
  <2> QED  BY <1>2, <2>1, <2>2
<1>5. ASSUME NEW b \in PageOf(a)
      PROVE  b \in Memory /\ page_addr(b) = page_addr(a) /\ PageOf(b) = PageOf(a)
  <2>1. PICK r \in 0 .. (k - 1) : b = page_addr(a) + r
    <3>1. b \in page_addr(a) .. (page_addr(a) + k - 1)  BY <1>3, <1>5 DEF PageOf
    <3>2. page_addr(a) \in Nat /\ k \in Nat  BY <1>2, <1>3, <1>4
    <3>3. b - page_addr(a) \in 0 .. (k - 1) /\ b = page_addr(a) + (b - page_addr(a))
      BY <3>1, <3>2
    <3> QED  BY <3>3
  <2>2. b \in s.addr .. s.last_addr  BY <1>2, <1>3, <1>4, <2>1
  <2>3. b \in Memory /\ page_size(b) = k  BY <1>1, <2>2 DEF k
  <2>4. b % k = r  BY <1>3, <1>4, <2>1
  <2>5. page_addr(b) = page_addr(a)  BY <1>2, <1>3, <1>4, <2>1, <2>3, <2>4 DEF page_addr
  <2> QED  BY <1>3, <2>3, <2>5 DEF PageOf
<1> QED  BY <1>2, <1>3, <1>4, <1>5

(* An address is in its page, and so is the start of the page.             *)
LEMMA OwnPage ==
  ASSUME NEW a \in Memory
  PROVE  /\ a \in PageOf(a) /\ page_addr(a) \in Memory /\ PageOf(page_addr(a)) = PageOf(a)
         /\ PageOf(a) \subseteq Memory
<1>1. a \in PageOf(a) /\ page_addr(a) \in PageOf(a)
  BY PageFacts DEF PageOf
<1> QED  BY <1>1, PageFacts

(* What follows a page starts a page.                                      *)
LEMMA NextPage ==
  ASSUME NEW a \in Memory, page_addr(a) + page_size(a) \in Memory
  PROVE  page_addr(page_addr(a) + page_size(a)) = page_addr(a) + page_size(a)
<1> DEFINE b == page_addr(a) + page_size(a)
<1>1. PICK s \in get_memory_layout :
        /\ a \in s.addr .. s.last_addr
        /\ \A c \in s.addr .. s.last_addr : c \in Memory /\ page_size(c) = s.page_size
  BY SegmentOf
<1>2. PICK r \in get_memory_layout :
        /\ b \in r.addr .. r.last_addr
        /\ \A c \in r.addr .. r.last_addr : c \in Memory /\ page_size(c) = r.page_size
  BY SegmentOf
<1>3. /\ s.addr \in Nat /\ s.last_addr \in Nat /\ s.page_size \in Nat \ {0}
      /\ s.addr % s.page_size = 0 /\ (s.last_addr + 1) % s.page_size = 0
      /\ r.addr \in Nat /\ r.last_addr \in Nat /\ r.page_size \in Nat \ {0}
      /\ r.addr % r.page_size = 0
      /\ s = r \/ s.last_addr < r.addr \/ r.last_addr < s.addr
  BY <1>1, <1>2, LayoutAssumption
<1>4. a \in Nat /\ page_size(a) = s.page_size /\ page_addr(a) = a - (a % s.page_size)
  BY <1>1, <1>3 DEF page_addr
<1>5. /\ a - (a % s.page_size) \in Nat /\ a % s.page_size \in 0 .. (s.page_size - 1)
      /\ b <= s.last_addr + 1 /\ a < b
  <2> DEFINE k == s.page_size
  <2>1. k \in Nat \ {0} /\ a \in Nat  BY <1>3, <1>4
  <2> HIDE DEF k
  <2>2. /\ a % k \in 0 .. (k - 1) /\ a - (a % k) \in Nat
        /\ \A y \in Nat : y % k = 0 => (a < y => a - (a % k) + k <= y)
    BY <2>1, RoundDown
  <2>3. s.last_addr + 1 \in Nat /\ a < s.last_addr + 1 /\ (s.last_addr + 1) % k = 0
    BY <1>1, <1>3, <1>4 DEF k
  <2>4. b = a - (a % k) + k  BY <1>4 DEF k
  <2>5. a - (a % k) + k <= s.last_addr + 1  BY <2>2, <2>3
  <2>6. a < b  BY <2>1, <2>2, <2>4
  <2> QED  BY <2>2, <2>4, <2>5, <2>6 DEF k
<1>6. b \in Nat /\ page_size(b) = r.page_size  BY <1>2, <1>3
<1>7. b % r.page_size = 0
  <2>1. CASE s = r
    <3> DEFINE k == s.page_size
               d == a \div k
    <3>1. k \in Nat \ {0} /\ a \in Nat /\ b = a - (a % k) + k  BY <1>3, <1>4
    <3> HIDE DEF k
    <3>2. d \in Nat /\ a = d * k + (a % k) /\ a % k \in 0 .. (k - 1)  BY <3>1
    <3> HIDE DEF d
    <3>3. b = (d + 1) * k + 0
      <4>1. d * k \in Nat /\ (d + 1) * k = d * k + k  BY <3>1, <3>2
      <4>2. a - (a % k) = d * k  BY <3>1, <3>2, <4>1
      <4>3. b = d * k + k  BY <3>1, <4>2
      <4>4. (d + 1) * k + 0 = d * k + k  BY <3>1, <4>1
      <4> QED  BY <4>3, <4>4
    <3>4. ((d + 1) * k + 0) % k = 0
      <4>1. d + 1 \in Nat /\ 0 \in 0 .. (k - 1)  BY <3>1, <3>2
      <4> QED  BY <3>1, <4>1, DivUnique
    <3> QED  BY <2>1, <3>3, <3>4 DEF k
  <2>2. CASE s.last_addr < r.addr
    <3>1. b = r.addr  BY <1>2, <1>3, <1>5, <1>6, <2>2
    <3> QED  BY <1>3, <3>1
  <2>3. CASE r.last_addr < s.addr
    BY <1>1, <1>2, <1>3, <1>4, <1>5, <1>6, <2>3
  <2> QED  BY <1>3, <2>1, <2>2, <2>3
<1> QED  BY <1>6, <1>7 DEF page_addr

-----------------------------------------------------------------------------
(* The elements of the file given, and what the update makes of them.      *)
LEMMA ElementFacts ==
  ASSUME FilesRead, HostType
  PROVE  /\ Len(Elements) \in Nat /\ DOMAIN Elements = 1 .. Len(Elements)
         /\ \A k \in DOMAIN Elements :
              /\ Elements[k].addr \in Nat /\ Elements[k].size \in Nat /\ Elements[k].len \in Nat
              /\ Elements[k].len <= Elements[k].size
<1>1. job.file \in Files  BY DEF HostType
<1> DEFINE S == [addr : Nat, size : Nat, len : Nat]
<1>2. Elements \in Seq(S)
  BY <1>1 DEF FilesRead, Elements
<1>3. \A k \in DOMAIN Elements : Elements[k].len <= Elements[k].size
  BY <1>1 DEF FilesRead, Elements
<1> HIDE DEF S
<1>4. Len(Elements) \in Nat /\ DOMAIN Elements = 1 .. Len(Elements)
  BY <1>2
<1>5. \A k \in DOMAIN Elements : Elements[k] \in S
  BY <1>2, <1>4
<1> QED  BY <1>3, <1>4, <1>5 DEF S

(* Each element claims its addresses, and its data in the flash are of the *)
(* image.                                                                  *)
LEMMA ImageFacts ==
  ASSUME FilesRead, HostType, job.path, NEW k \in DOMAIN Elements
  PROVE  /\ Claims(Elements[k]) \subseteq Claimed
         /\ Memory \cap Data(Elements[k]) \subseteq Image
<1>1. job.file \in Files /\ Content(job.file) = Elements
  BY DEF HostType, FilesRead, Elements
<1>2. Claimed = UNION {Claims(Elements[l]) : l \in DOMAIN Elements}
  BY <1>1 DEF Claimed, ClaimedBy
<1>3. Image = (UNION {Data(Elements[l]) : l \in DOMAIN Elements}) \cap Memory
  BY <1>1 DEF Image, ImageOf
<1> QED  BY <1>2, <1>3

(* What is due is what no later element erases.                            *)
LEMMA DueFacts ==
  ASSUME FilesRead, HostType
  PROVE  /\ ~job.path => Due = {}
         /\ job.path => \A a \in Due : a \in Memory /\ \E k \in DOMAIN Elements : Kept(k, a)
<1>1. job.file \in Files /\ job.mass \in BOOLEAN /\ Content(job.file) = Elements
  BY DEF HostType, FilesRead, Elements
<1>2. ASSUME job.path, NEW a \in Due
      PROVE  a \in Memory /\ \E k \in DOMAIN Elements : Kept(k, a)
  <2>1. Due = DueOf[job.file][job.mass]  BY <1>2 DEF Due
  <2>2. DueOf[job.file][job.mass]
          = {b \in ImageOf[job.file] \cap Memory : Stays(b, job.file, job.mass)}
    BY <1>1 DEF DueOf
  <2>3. a \in ImageOf[job.file] \cap Memory /\ Stays(a, job.file, job.mass)
    BY <1>2, <2>1, <2>2
  <2> QED  BY <1>1, <2>3 DEF Stays, Kept
<1> QED  BY <1>2 DEF Due

(* The command line stays what it is.                                      *)
LEMMA JobKept ==
  ASSUME job' = job
  PROVE  /\ Elements' = Elements /\ Claimed' = Claimed /\ Image' = Image /\ Due' = Due
<1>1. Elements' = Elements  BY DEF Elements
<1>2. Claimed' = Claimed  BY DEF Claimed
<1>3. Image' = Image  BY DEF Image
<1>4. Due' = Due  BY DEF Due
<1> QED  BY <1>1, <1>2, <1>3, <1>4

-----------------------------------------------------------------------------
(* The bootloader.  A command leaves numbers in the flash.                 *)
LEMMA PerformType ==
  ASSUME DeviceType, Perform
  PROVE  mem' \in [Memory -> Int] /\ ptr' \in Nat
<1>1. ptr' \in Nat  BY DEF DeviceType, Perform, Commands
<1>2. ASSUME NEW a \in Memory PROVE After(a, pend) \in Int
  <2>1. a \in Nat /\ ptr \in Nat /\ pend.at \in Nat /\ mem[a] \in Int
    BY PageFacts DEF DeviceType, Commands
  <2>2. Erased \in Int /\ Torn \in Int  BY DEF Erased, Torn
  <2>3. pend.at + a - ptr \in Int  BY <2>1
  <2> QED  BY <2>1, <2>2, <2>3 DEF After
<1>3. \A a \in Memory : mem[a] \in Int  BY DEF DeviceType
<1> QED  BY <1>1, <1>2, <1>3 DEF Perform

(* So does one that is cut short.                                          *)
LEMMA TearType ==
  ASSUME DeviceType, Tear
  PROVE  mem' \in [Memory -> Int] /\ ptr' = ptr
<1>1. Torn \in Int  BY DEF Torn
<1>2. \A a \in Memory : mem[a] \in Int  BY DEF DeviceType
<1> QED  BY <1>1, <1>2 DEF DeviceType, Tear

(* Each command does what an update does: it erases a page of the file or  *)
(* the whole flash, programs erased cells, or nothing.                     *)
LEMMA Performing ==
  ASSUME DeviceType, Pending, dev = "dnBUSY", Perform
  PROVE  \/ /\ pend.op = "erase" /\ (job.mass \/ PageOf(pend.at) \cap Claimed # {})
            /\ pend.at \in Memory
            /\ mem' = [a \in Memory |-> IF a \in PageOf(pend.at) THEN Erased ELSE mem[a]]
         \/ /\ pend.op = "mass" /\ job.mass /\ mem' = [a \in Memory |-> Erased]
         \/ /\ pend.op = "data" /\ pend.at = ptr
            /\ ptr .. (ptr + pend.n - 1) \subseteq Memory \cap Image
            /\ \A a \in ptr .. (ptr + pend.n - 1) : mem[a] \in {Erased, a}
            /\ mem' = [a \in Memory |-> IF a \in ptr .. (ptr + pend.n - 1) THEN a ELSE mem[a]]
         \/ /\ pend.op \in {"none", "addr", "leave"} /\ mem' = mem
            /\ pend.op = "addr" => pend.at \in Memory
<1>1. Safe(pend, ptr, mem) /\ Valid(pend)  BY DEF Pending
<1>2. pend \in Commands /\ ptr \in Nat /\ mem \in [Memory -> Int]  BY DEF DeviceType
<1>3. mem' = [a \in Memory |-> IF a \in Affected(pend) THEN After(a, pend) ELSE mem[a]]
  BY DEF Perform
<1>4. CASE pend.op = "erase"
  <2>1. pend.at \in Memory /\ Affected(pend) = PageOf(pend.at)
    BY <1>1, <1>4 DEF Valid, Affected
  <2>2. \A a : After(a, pend) = Erased  BY <1>4 DEF After
  <2>3. job.mass \/ PageOf(pend.at) \cap Claimed # {}  BY <1>1, <1>4, <2>1 DEF Safe
  <2> QED  BY <1>3, <1>4, <2>1, <2>2, <2>3
<1>5. CASE pend.op = "mass"
  <2>1. Affected(pend) = Memory  BY <1>5 DEF Affected
  <2>2. \A a : After(a, pend) = Erased  BY <1>5 DEF After
  <2> QED  BY <1>1, <1>3, <1>5, <2>1, <2>2 DEF Safe
<1>6. CASE pend.op = "data"
  <2> DEFINE S == ptr .. (ptr + pend.n - 1)
  <2>1. Affected(pend) = S  BY <1>6 DEF Affected
  <2>2. S \subseteq Memory
    <3>1. \A j \in 0 .. (pend.n - 1) : ptr + j \in Memory  BY <1>1, <1>6 DEF Valid
    <3>2. ASSUME NEW a \in S PROVE a \in Memory
      <4>1. pend.n \in Nat /\ ptr \in Nat  BY <1>2 DEF Commands
      <4>2. a - ptr \in 0 .. (pend.n - 1) /\ ptr + (a - ptr) = a  BY <4>1
      <4> QED  BY <3>1, <4>2
    <3> QED  BY <3>2
  <2>3. pend.at = ptr /\ \A a \in S : a \in Image /\ mem[a] \in {Erased, a}
    <3>1. pend.at = ptr /\ \A a \in Memory \cap S : Fits(a, mem)  BY <1>1, <1>6 DEF Safe
    <3> QED  BY <2>2, <3>1 DEF Fits
  <2>4. ASSUME NEW a \in S PROVE After(a, pend) = a
    <3>1. pend.n \in Nat /\ ptr \in Nat  BY <1>2 DEF Commands
    <3>2. pend.at + a - ptr = a  BY <2>3, <3>1
    <3> QED  BY <1>6, <2>3, <3>2 DEF After
  <2>5. mem' = [a \in Memory |-> IF a \in S THEN a ELSE mem[a]]
    BY <1>3, <2>1, <2>4
  <2> QED  BY <1>6, <2>2, <2>3, <2>5
<1>7. CASE pend.op \in {"none", "addr", "leave"}
  <2>1. Affected(pend) = {}  BY <1>7 DEF Affected
  <2>2. mem' = mem  BY <1>2, <1>3, <2>1
  <2>3. pend.op = "addr" => pend.at \in Memory  BY <1>1 DEF Valid
  <2> QED  BY <1>7, <2>2, <2>3
<1> QED  BY <1>2, <1>4, <1>5, <1>6, <1>7 DEF Commands

-----------------------------------------------------------------------------
(* A status request starts a command or ends it, and keeps what is pending *)
(* within the update.                                                      *)
LEMMA Replying ==
  ASSUME DeviceType, Pending, NEW r, Reply(r), job' = job
  PROVE  DeviceType' /\ Pending'
<1>0. Claimed' = Claimed /\ Image' = Image  BY JobKept
<1>1. CASE /\ dev = "dnSYNC" /\ r = (IF Valid(pend) THEN "dnBUSY" ELSE "error")
           /\ dev' = r /\ UNCHANGED <<pend, ptr, mem>>
  <2>1. DeviceType'  BY <1>1 DEF DeviceType
  <2>2. Safe(pend, ptr, mem)'  BY <1>0, <1>1 DEF Pending, Safe, Fits
  <2>3. dev' = "dnBUSY" => Valid(pend)'
    <3>1. dev' = "dnBUSY" => Valid(pend)  BY <1>1
    <3> QED  BY <1>1, <3>1 DEF Valid
  <2> QED  BY <2>1, <2>2, <2>3 DEF Pending
<1>2. CASE dev = "dnBUSY" /\ dev' = "dnIDLE" /\ Perform /\ UNCHANGED pend
  BY <1>2, PerformType DEF DeviceType, Pending
<1>3. CASE dev = "dnBUSY" /\ dev' = "error" /\ Tear /\ UNCHANGED pend
  BY <1>3, TearType DEF DeviceType, Pending
<1>4. CASE dev = "manSYNC" /\ dev' = "gone" /\ UNCHANGED <<pend, ptr, mem>>
  BY <1>4 DEF DeviceType, Pending
<1>5. CASE dev \in {"dfuIDLE", "dnIDLE", "upIDLE", "error"} /\ UNCHANGED <<dev, pend, ptr, mem>>
  BY <1>5 DEF DeviceType, Pending
<1> QED  BY <1>1, <1>2, <1>3, <1>4, <1>5 DEF Reply

(* So do the other requests and the cable.                                 *)
LEMMA Resting ==
  ASSUME DeviceType, job' = job, UNCHANGED <<pend, ptr, mem>>,
         dev' \in {"dfuIDLE", "dnIDLE", "upIDLE", "error", "manSYNC", "gone"}
  PROVE  DeviceType' /\ Pending'
BY DEF DeviceType, Pending

(* What leaves the bootloader alone keeps its pending command within the   *)
(* update.                                                                 *)
LEMMA Unchanging ==
  ASSUME DeviceType, Pending, job' = job, UNCHANGED device
  PROVE  DeviceType' /\ Pending'
<1> USE DEF device
<1>0. Claimed' = Claimed /\ Image' = Image  BY JobKept
<1>1. Safe(pend, ptr, mem)' = Safe(pend, ptr, mem)  BY <1>0 DEF Safe, Fits
<1>2. Valid(pend)' = Valid(pend)  BY DEF Valid
<1> QED  BY <1>1, <1>2 DEF DeviceType, Pending

(* A run that fails promises nothing.                                      *)
LEMMA Failing ==
  ASSUME HostType, DeviceType', Pending', tool' = "failed", UNCHANGED <<job, pos>>
  PROVE  IInv'
<1>1. HostType'  BY DEF HostType, Ends
<1>2. InStep'  BY DEF InStep, Ops, Closing
<1>3. InFile'  BY DEF InFile, Writing, Piece, Closing
<1>4. Fresh'  BY DEF Fresh, Piece
<1>5. WrittenSoFar'  BY DEF WrittenSoFar, Writing, Piece, Closing
<1> QED  BY <1>1, <1>2, <1>3, <1>4, <1>5 DEF IInv

-----------------------------------------------------------------------------
(* The transfers of an operation that sends c.                             *)
Sending(c) ==
  /\ step = "send" /\ Download(c) /\ step' = "execute" /\ UNCHANGED <<tool, pos, job>>

Executing ==
  /\ step = "execute" /\ UNCHANGED job
  /\ \E r : Reply(r) /\ IF r = "dnBUSY" THEN step' = "check" /\ UNCHANGED <<tool, pos>> ELSE Fail

Failed == (Stalled \/ \E r : Reply(r)) /\ tool' = "failed" /\ UNCHANGED <<pos, job>>

Checked == step = "check" /\ Reply("dnIDLE") /\ UNCHANGED job

(* What an operation holds on to while the command is not yet carried out. *)
LEMMA Waiting ==
  ASSUME IInv, tool \in Ops, UNCHANGED <<tool, pos, job, mem, ptr>>, dev # "gone", dev' # "gone"
  PROVE  HostType' /\ InFile' /\ Fresh' /\ WrittenSoFar'
<1>0. Elements' = Elements  BY JobKept
<1>1. HostType'  BY DEF IInv, HostType
<1>2. Here' = Here /\ Size' = Size /\ xfer_total' = xfer_total
  BY <1>0 DEF Here, Size, xfer_total
<1>3. InPiece' = InPiece /\ Aligned' = Aligned  BY <1>0, <1>2 DEF InPiece, Aligned
<1>4. InFile'  BY <1>0, <1>2, <1>3 DEF IInv, InFile
<1>5. Fresh'  BY <1>0, <1>2 DEF IInv, Fresh
<1>6. \A k, a : Kept(k, a)' = Kept(k, a) /\ Past(k, a)' = Past(k, a)
  BY <1>0 DEF Kept, Past
<1>7. WrittenSoFar'  BY <1>0, <1>6 DEF IInv, WrittenSoFar
<1> QED  BY <1>1, <1>4, <1>5, <1>7

(* What an operation sends does not change while it runs.                  *)
LEMMA SendsKept ==
  ASSUME UNCHANGED <<tool, pos, job>>, NEW t, NEW c
  PROVE  Sends(t, c)' = Sends(t, c)
<1>0. Elements' = Elements  BY JobKept
<1>1. Here' = Here /\ xfer_total' = xfer_total  BY <1>0 DEF Here, xfer_total
<1>2. chunk' = chunk  BY <1>1 DEF chunk
<1> QED  BY <1>1, <1>2 DEF Sends

(* The first transfer of an operation: its command waits in the            *)
(* bootloader.                                                             *)
LEMMA SendingKeeps ==
  ASSUME IInv, tool \in Ops, NEW c \in Commands, c.op # "leave",
         Sends(tool, c), Safe(c, ptr, mem), Sending(c)
  PROVE  IInv'
<1>1. /\ dev \in {"dfuIDLE", "dnIDLE"} /\ dev' = "dnSYNC" /\ pend' = c
      /\ UNCHANGED <<ptr, mem, tool, pos, job>> /\ step' = "execute"
  BY DEF Sending, Download
<1>2. HostType' /\ InFile' /\ Fresh' /\ WrittenSoFar'  BY <1>1, Waiting
<1>3. DeviceType'  BY <1>1 DEF IInv, DeviceType
<1>4. Claimed' = Claimed /\ Image' = Image  BY <1>1, JobKept
<1>5. Pending'
  <2>1. Safe(pend, ptr, mem)'  BY <1>1, <1>4 DEF Safe, Fits
  <2> QED  BY <1>1, <2>1 DEF Pending
<1>6. InStep'
  <2>1. Sends(tool, c)'  BY <1>1, SendsKept
  <2> QED  BY <1>1, <2>1 DEF InStep, Ops, Closing
<1> QED  BY <1>2, <1>3, <1>5, <1>6 DEF IInv

(* The last transfer of an operation that fails.                           *)
LEMMA FailedKeeps ==
  ASSUME IInv, Failed
  PROVE  IInv'
<1>1. DeviceType' /\ Pending'
  <2>1. CASE Stalled  BY <2>1, Resting DEF Stalled, Failed, IInv
  <2>2. CASE \E r : Reply(r)  BY <2>2, Replying DEF Failed, IInv
  <2> QED  BY <2>1, <2>2 DEF Failed
<1> QED  BY <1>1, Failing DEF Failed, IInv

(* The second: the bootloader begins, or refuses and the run fails.        *)
LEMMA ExecutingKeeps ==
  ASSUME IInv, tool \in Ops, Executing
  PROVE  IInv'
<1>1. PICK r : Reply(r) /\ IF r = "dnBUSY" THEN step' = "check" /\ UNCHANGED <<tool, pos>> ELSE Fail
  BY DEF Executing
<1>2. dev = "dnSYNC" /\ step = "execute" /\ job' = job
  BY <1>1 DEF Executing, IInv, InStep, Reply
<1>3. CASE r # "dnBUSY"
  BY <1>1, <1>3, FailedKeeps DEF Failed, Fail, Executing
<1>4. CASE r = "dnBUSY"
  <2>1. dev' = "dnBUSY" /\ UNCHANGED <<pend, ptr, mem>>  BY <1>1, <1>2, <1>4 DEF Reply
  <2>2. HostType' /\ InFile' /\ Fresh' /\ WrittenSoFar'
    BY <1>1, <1>2, <1>4, <2>1, Waiting
  <2>3. DeviceType' /\ Pending'  BY <1>1, <1>2, Replying DEF IInv
  <2>4. Sends(tool, pend)' = Sends(tool, pend)
    <3>1. UNCHANGED <<tool, pos, job, pend>>  BY <1>1, <1>2, <1>4, <2>1
    <3>2. Here' = Here /\ xfer_total' = xfer_total /\ chunk' = chunk
      BY <3>1, JobKept DEF Here, xfer_total, chunk
    <3> QED  BY <3>1, <3>2 DEF Sends
  <2>5. InStep'
    BY <1>1, <1>2, <1>4, <2>1, <2>4 DEF IInv, InStep, Ops, Closing
  <2> QED  BY <2>2, <2>3, <2>5 DEF IInv
<1> QED  BY <1>3, <1>4

(* The second status of an operation: its command was carried out.         *)
LEMMA CheckedFacts ==
  ASSUME IInv, tool \in Ops, Checked
  PROVE  /\ dev = "dnBUSY" /\ dev' = "dnIDLE" /\ Perform /\ UNCHANGED pend
         /\ Sends(tool, pend) /\ DeviceType' /\ Pending'
<1>1. dev = "dnBUSY" /\ Sends(tool, pend)
  BY DEF Checked, Reply, IInv, InStep
<1>2. dev' = "dnIDLE" /\ Perform /\ UNCHANGED pend  BY <1>1 DEF Checked, Reply
<1> QED  BY <1>1, <1>2, Replying DEF Checked, IInv

(* A command like mass_erase or set_address does not change what it sends. *)
LEMMA Operating ==
  ASSUME IInv, NEW c \in Commands, c.op # "leave", tool \in Ops,
         step = "send" => Sends(tool, c) /\ (dev # "gone" => Safe(c, ptr, mem)),
         Sending(c) \/ Executing \/ Failed
  PROVE  IInv'
<1>1. CASE Sending(c)
  <2>1. dev # "gone" /\ step = "send"  BY <1>1 DEF Sending, Download
  <2> QED  BY <1>1, <2>1, SendingKeeps
<1> QED  BY <1>1, ExecutingKeeps, FailedKeeps

-----------------------------------------------------------------------------
(* The operations one by one.                                              *)
LEMMA MassKeeps ==
  ASSUME FilesRead, IInv, mass_erase
  PROVE  IInv'
<1> DEFINE c == [op |-> "mass", at |-> 0, n |-> 0]
<1>1. /\ tool = "mass"
      /\ Sending(c) \/ Executing \/ Failed \/ (Checked /\ Go(AfterMass) /\ UNCHANGED pos)
  BY DEF mass_erase, Operation, check_status, Sending, Executing, Failed, Checked, Fail
<1>2. tool \in Ops /\ c \in Commands /\ Sends(tool, c) /\ Safe(c, ptr, mem)
  BY <1>1 DEF IInv, InFile, Ops, Commands, Sends, Safe
<1>3. CASE Checked /\ Go(AfterMass) /\ UNCHANGED pos
  <2>1. /\ dev = "dnBUSY" /\ dev' = "dnIDLE" /\ pend.op = "mass" /\ Perform
        /\ DeviceType' /\ Pending'
    BY <1>1, <1>2, <1>3, CheckedFacts DEF Sends
  <2>2. \A a \in Memory : mem'[a] = Erased  BY <2>1, Performing DEF IInv
  <2>3. /\ step' = "send" /\ UNCHANGED <<pos, job>>
        /\ pos.elem = 1 /\ pos.off = 0
        /\ \/ job.path /\ tool' = "read"
           \/ ~job.path /\ tool' \in {"jump", "end"}
    BY <1>1, <1>3 DEF IInv, InFile, Go, AfterMass, AfterPath, Checked
  <2>4. HostType'  BY <2>3 DEF IInv, HostType, Ops
  <2>5. InStep'  BY <2>3 DEF InStep, Ops, Closing
  <2>6. InFile'  BY <2>3 DEF InFile, Writing, Piece, Closing
  <2>7. Fresh'  BY <2>2, <2>3 DEF Fresh, Piece
  <2>8. WrittenSoFar'  BY <2>3 DEF WrittenSoFar, Writing, Piece, Closing
  <2> QED  BY <2>1, <2>4, <2>5, <2>6, <2>7, <2>8 DEF IInv
<1>4. c.op # "leave"  OBVIOUS
<1> QED  BY <1>1, <1>2, <1>3, <1>4, Operating

(* The page of a piece is erased: not a page of what is to stay.           *)
LEMMA EraseKeeps ==
  ASSUME FilesRead, IInv, page_erase
  PROVE  IInv'
<1> DEFINE c == [op |-> "erase", at |-> page_addr(Here), n |-> 0]
<1>1. /\ tool = "erase"
      /\ Sending(c) \/ Executing \/ Failed \/ (Checked /\ Go("chunk") /\ UNCHANGED pos)
  BY DEF page_erase, Operation, check_status, Sending, Executing, Failed, Checked, Fail
<1>2. /\ job.path /\ ~job.mass /\ Here \in Memory /\ pos.xfer = 0 /\ InPiece
      /\ pos.off = 0 \/ page_addr(Here) = Here
  BY <1>1 DEF IInv, InFile, InPiece, Aligned, Writing
<1> DEFINE e == Elements[pos.elem]
<1>3. /\ pos.elem \in DOMAIN Elements /\ pos.off \in Nat /\ pos.elem \in Nat
      /\ e.addr \in Nat /\ e.size \in Nat /\ e.len \in Nat /\ Here = e.addr + pos.off
      /\ pos.off < e.size /\ Here \in Claims(e)
  <2>1. pos.elem \in DOMAIN Elements /\ pos.off < e.size  BY <1>2 DEF InPiece, Size
  <2>2. e.addr \in Nat /\ e.size \in Nat /\ e.len \in Nat  BY <2>1, ElementFacts DEF IInv
  <2>3. pos.off \in Nat /\ pos.elem \in Nat  BY DEF IInv, HostType
  <2>4. Here = e.addr + pos.off  BY DEF Here
  <2> QED  BY <2>1, <2>2, <2>3, <2>4 DEF Claims
<1>4. /\ Here \in PageOf(Here) /\ page_addr(Here) \in Memory /\ page_addr(Here) \in Nat
      /\ PageOf(page_addr(Here)) = PageOf(Here)
  BY <1>2, OwnPage, PageFacts
<1>5. tool \in Ops /\ c \in Commands /\ Sends(tool, c) /\ Safe(c, ptr, mem)
  <2>1. Claims(e) \subseteq Claimed  BY <1>2, <1>3, ImageFacts DEF IInv
  <2>2. PageOf(c.at) \cap Claimed # {}  BY <1>3, <1>4, <2>1
  <2> QED  BY <1>1, <1>4, <2>2 DEF Ops, Commands, Sends, Safe
<1>6. CASE Checked /\ Go("chunk") /\ UNCHANGED pos
  <2>1. /\ dev = "dnBUSY" /\ dev' = "dnIDLE" /\ pend.op = "erase" /\ pend.at = page_addr(Here)
        /\ Perform /\ DeviceType' /\ Pending'
    BY <1>1, <1>5, <1>6, CheckedFacts DEF Sends
  <2>2. mem' = [a \in Memory |-> IF a \in PageOf(Here) THEN Erased ELSE mem[a]]
    BY <1>4, <2>1, Performing DEF IInv
  <2>3. /\ tool' = "chunk" /\ step' = "send" /\ UNCHANGED <<pos, job>>
        /\ Elements' = Elements /\ Here' = Here /\ Size' = Size /\ xfer_total' = xfer_total
    <3>1. tool' = "chunk" /\ step' = "send" /\ UNCHANGED <<pos, job>>
      BY <1>6 DEF Checked, Go
    <3>2. Elements' = Elements  BY <3>1, JobKept
    <3> QED  BY <3>1, <3>2 DEF Here, Size, xfer_total
  <2>4. HostType'  BY <2>3 DEF IInv, HostType, Writing, Piece
  <2>5. InStep'  BY <2>3 DEF InStep, Ops, Closing
  <2>6. InFile'
    <3>1. InPiece'  BY <1>2, <2>3 DEF InPiece
    <3>2. Aligned'  BY <1>2, <2>3 DEF Aligned
    <3> QED  BY <1>2, <2>3, <3>1, <3>2 DEF InFile, Writing, Piece, Closing
  <2>7. Fresh'
    <3>1. \A a \in Memory \cap (Here .. (Here + pos.wsize - 1)) : a \in PageOf(Here)
      <4>1. /\ Here \in Nat /\ pos.wsize \in Nat /\ page_size(Here) \in Nat
            /\ Here + pos.wsize <= page_addr(Here) + page_size(Here) /\ page_addr(Here) <= Here
        BY <1>2, PageFacts DEF IInv, HostType, InPiece
      <4> QED  BY <1>4, <4>1 DEF PageOf
    <3>2. Here + pos.xfer = Here  BY <1>2, PageFacts
    <3> QED  BY <1>2, <2>2, <2>3, <3>1, <3>2 DEF Fresh
  <2>8. WrittenSoFar'
    <3>1. ASSUME NEW k \in DOMAIN Elements, NEW a \in Memory, Kept(k, a), Past(k, a)
          PROVE  a \notin PageOf(Here)
      <4>1. CASE k < pos.elem
        <5>1. PageOf(a) \cap Claims(e) = {}
          BY <1>2, <1>3, <3>1, <4>1, ElementFacts DEF Kept, IInv
        <5>2. ASSUME a \in PageOf(Here) PROVE FALSE
          <6>1. PageOf(a) = PageOf(Here)  BY <1>2, <5>2, PageFacts
          <6> QED  BY <1>3, <1>4, <5>1, <6>1
        <5> QED  BY <5>2
      <4>2. CASE k = pos.elem
        <5>1. a \in Nat /\ a >= e.addr /\ a < e.addr + pos.off
          <6>1. a \in Data(e) /\ a < e.addr + pos.off + 0
            BY <1>1, <3>1, <4>2, <1>3 DEF Kept, Past, Piece
          <6>2. a \in Nat  BY PageFacts
          <6> QED  BY <1>3, <6>1, <6>2 DEF Data
        <5>2. page_addr(Here) = Here /\ a < Here  BY <1>2, <1>3, <5>1
        <5> QED  BY <1>2, <5>1, <5>2, PageFacts DEF PageOf
      <4>3. k < pos.elem \/ k = pos.elem  BY <3>1 DEF Past
      <4> QED  BY <4>1, <4>2, <4>3
    <3>2. \A k, a : Kept(k, a)' = Kept(k, a)  BY <2>3 DEF Kept
    <3>3. \A k, a : Past(k, a)' => Past(k, a)
      BY <1>1, <1>2, <2>3 DEF Past, Piece
    <3>4. ASSUME NEW k \in DOMAIN Elements, NEW a \in Memory, Kept(k, a), Past(k, a)
          PROVE  mem'[a] = a
      <4>1. mem[a] = a
        BY <1>1, <1>2, <2>1, <3>4 DEF IInv, WrittenSoFar, Writing
      <4> QED  BY <2>2, <3>1, <3>4, <4>1
    <3> QED  BY <2>3, <3>2, <3>3, <3>4 DEF WrittenSoFar
  <2> QED  BY <2>1, <2>4, <2>5, <2>6, <2>7, <2>8 DEF IInv
<1>7. c.op # "leave"  OBVIOUS
<1> QED  BY <1>1, <1>5, <1>6, <1>7, Operating

(* The address is set to where the next data belong.                       *)
LEMMA AddressKeeps ==
  ASSUME FilesRead, IInv, set_address
  PROVE  IInv'
<1> DEFINE c == [op |-> "addr", at |-> Here + pos.xfer, n |-> 0]
<1>1. /\ tool = "addr"
      /\ Sending(c) \/ Executing \/ Failed \/ (Checked /\ Go("data") /\ UNCHANGED pos)
  BY DEF set_address, Operation, check_status, Sending, Executing, Failed, Checked, Fail
<1>2. job.path /\ InPiece /\ Aligned /\ pos.xfer < xfer_total
  BY <1>1 DEF IInv, InFile, InPiece, Writing, Piece
<1>3. tool \in Ops /\ c \in Commands /\ Sends(tool, c) /\ Safe(c, ptr, mem)
  <2>1. Here + pos.xfer \in Nat
    <3>1. pos.elem \in DOMAIN Elements  BY <1>2 DEF InPiece
    <3>2. Elements[pos.elem].addr \in Nat  BY <3>1, ElementFacts DEF IInv
    <3>3. pos.off \in Nat /\ pos.xfer \in Nat  BY DEF IInv, HostType
    <3> QED  BY <3>2, <3>3 DEF Here
  <2> QED  BY <1>1, <2>1 DEF Ops, Commands, Sends, Safe
<1>4. CASE Checked /\ Go("data") /\ UNCHANGED pos
  <2>1. /\ dev = "dnBUSY" /\ dev' = "dnIDLE" /\ pend.op = "addr" /\ pend.at = Here + pos.xfer
        /\ Perform /\ DeviceType' /\ Pending'
    BY <1>1, <1>3, <1>4, CheckedFacts DEF Sends
  <2>2. mem' = mem /\ pend.at \in Memory /\ ptr' = pend.at
    BY <2>1, Performing DEF IInv, Perform
  <2>3. /\ tool' = "data" /\ step' = "send" /\ UNCHANGED <<pos, job>>
        /\ Elements' = Elements /\ Here' = Here /\ Size' = Size /\ xfer_total' = xfer_total
    <3>1. tool' = "data" /\ step' = "send" /\ UNCHANGED <<pos, job>>
      BY <1>4 DEF Checked, Go
    <3>2. Elements' = Elements  BY <3>1, JobKept
    <3> QED  BY <3>1, <3>2 DEF Here, Size, xfer_total
  <2>4. HostType'  BY <2>3 DEF IInv, HostType, Writing, Piece
  <2>5. InStep'  BY <2>3 DEF InStep, Ops, Closing
  <2>6. InFile'
    <3>1. InPiece'  BY <1>2, <2>3 DEF InPiece
    <3>2. Aligned'  BY <1>2, <2>3 DEF Aligned
    <3> QED  BY <1>2, <2>1, <2>2, <2>3, <3>1, <3>2 DEF InFile, Writing, Piece, Closing
  <2>7. Fresh'  BY <1>1, <2>1, <2>2, <2>3 DEF IInv, Fresh, Piece
  <2>8. WrittenSoFar'
    <3>1. \A k, a : Kept(k, a)' = Kept(k, a) /\ Past(k, a)' = Past(k, a)
      BY <1>1, <2>3 DEF Kept, Past, Piece
    <3> QED  BY <1>1, <2>1, <2>2, <2>3, <3>1 DEF IInv, WrittenSoFar, Writing, Piece
  <2> QED  BY <2>1, <2>4, <2>5, <2>6, <2>7, <2>8 DEF IInv
<1>5. c.op # "leave"  OBVIOUS
<1> QED  BY <1>1, <1>3, <1>4, <1>5, Operating

(* The address of exit_dfu is a command as any other.                      *)
LEMMA JumpKeeps ==
  ASSUME FilesRead, IInv, SetJump
  PROVE  IInv'
<1> DEFINE c == [op |-> "addr", at |-> 0, n |-> 0]
<1>1. /\ tool = "jump"
      /\ Sending(c) \/ Executing \/ Failed \/ (Checked /\ Go("leave") /\ UNCHANGED pos)
  BY DEF SetJump, Operation, check_status, Sending, Executing, Failed, Checked, Fail
<1>2. tool \in Ops /\ c \in Commands /\ Sends(tool, c) /\ Safe(c, ptr, mem)
  BY <1>1 DEF Ops, Commands, Sends, Safe
<1>3. CASE Checked /\ Go("leave") /\ UNCHANGED pos
  <2>1. /\ dev = "dnBUSY" /\ dev' = "dnIDLE" /\ pend.op = "addr"
        /\ Perform /\ DeviceType' /\ Pending'
    BY <1>1, <1>2, <1>3, CheckedFacts DEF Sends
  <2>2. mem' = mem  BY <2>1, Performing DEF IInv
  <2>3. /\ tool' = "leave" /\ step' = "send" /\ UNCHANGED <<pos, job>> /\ Elements' = Elements
    BY <1>3, JobKept DEF Checked, Go
  <2>4. HostType'  BY <2>3 DEF IInv, HostType
  <2>5. InStep'  BY <2>1, <2>3 DEF InStep, Ops
  <2>6. InFile'  BY <1>1, <2>3 DEF IInv, InFile, Writing, Piece, Closing
  <2>7. Fresh'  BY <2>3 DEF Fresh, Piece
  <2>8. WrittenSoFar'
    <3>1. \A k, a : Kept(k, a)' = Kept(k, a) /\ Past(k, a)' = Past(k, a)
      BY <1>1, <2>3 DEF Kept, Past, Piece
    <3> QED  BY <1>1, <2>1, <2>2, <2>3, <3>1 DEF IInv, WrittenSoFar
  <2> QED  BY <2>1, <2>4, <2>5, <2>6, <2>7, <2>8 DEF IInv
<1>4. c.op # "leave"  OBVIOUS
<1> QED  BY <1>1, <1>2, <1>3, <1>4, Operating

(* A piece lies within its element.                                        *)
LEMMA PieceFacts ==
  ASSUME FilesRead, HostType, InPiece
  PROVE  LET e == Elements[pos.elem] IN
         /\ e.addr \in Nat /\ e.size \in Nat /\ e.len \in Nat
         /\ pos.elem \in DOMAIN Elements
         /\ pos.elem \in Nat /\ pos.off \in Nat /\ pos.wsize \in Nat \ {0} /\ pos.xfer \in Nat
         /\ Here = e.addr + pos.off /\ Here \in Nat
         /\ xfer_total \in Int /\ xfer_total <= pos.wsize /\ pos.off + xfer_total <= e.len
         /\ xfer_total = pos.wsize \/ pos.off + xfer_total = e.len
<1> DEFINE e == Elements[pos.elem]
<1>1. pos.elem \in DOMAIN Elements /\ pos.wsize > 0  BY DEF InPiece
<1>2. e.addr \in Nat /\ e.size \in Nat /\ e.len \in Nat  BY <1>1, ElementFacts
<1>3. pos.elem \in Nat /\ pos.off \in Nat /\ pos.wsize \in Nat \ {0} /\ pos.xfer \in Nat
  BY <1>1 DEF HostType
<1>4. Here = e.addr + pos.off  BY DEF Here
<1>5. xfer_total = IF pos.wsize <= e.len - pos.off THEN pos.wsize ELSE e.len - pos.off
  BY DEF xfer_total, Least
<1> HIDE DEF e
<1>6. /\ Here \in Nat
      /\ xfer_total \in Int /\ xfer_total <= pos.wsize /\ pos.off + xfer_total <= e.len
      /\ xfer_total = pos.wsize \/ pos.off + xfer_total = e.len
  BY <1>2, <1>3, <1>4, <1>5
<1> QED  BY <1>1, <1>2, <1>3, <1>4, <1>6 DEF e

(* The data of a chunk go to erased cells that are theirs.                 *)
LEMMA DataKeeps ==
  ASSUME FilesRead, IInv, SendData
  PROVE  IInv'
<1> DEFINE c == [op |-> "data", at |-> Here + pos.xfer, n |-> chunk]
           e == Elements[pos.elem]
           S == (Here + pos.xfer) .. (Here + pos.xfer + chunk - 1)
<1>1. /\ tool = "data"
      /\ \/ Sending(c) \/ Executing \/ Failed
         \/ Checked /\ Go("chunk") /\ pos' = [pos EXCEPT !.xfer = @ + chunk]
  BY DEF SendData, Operation, check_status, Sending, Executing, Failed, Checked, Fail
<1>2. /\ job.path /\ InPiece /\ Aligned /\ pos.xfer < xfer_total
      /\ ptr = Here + pos.xfer /\ ptr \in Memory
  BY <1>1 DEF IInv, InFile, InPiece, Writing, Piece
<1>3. /\ e.addr \in Nat /\ e.size \in Nat /\ e.len \in Nat
      /\ pos.elem \in DOMAIN Elements
      /\ pos.elem \in Nat /\ pos.off \in Nat /\ pos.wsize \in Nat \ {0} /\ pos.xfer \in Nat
      /\ Here = e.addr + pos.off /\ Here \in Nat
      /\ xfer_total \in Int /\ xfer_total <= pos.wsize /\ pos.off + xfer_total <= e.len
  BY <1>2, PieceFacts DEF IInv
<1>4. chunk \in Nat \ {0} /\ pos.xfer + chunk <= xfer_total
  BY <1>2, <1>3, DfuAssumption DEF chunk, Least
<1>5. Here \in Memory
  <2>1. CASE pos.xfer = 0  BY <1>2, <1>3, <2>1
  <2>2. CASE pos.xfer > 0  BY <1>2, <2>2 DEF InPiece
  <2> QED  BY <1>3, <2>1, <2>2
<1>6. \A a \in Memory \cap S : a \in Image
  <2>1. Memory \cap Data(e) \subseteq Image  BY <1>2, <1>3, ImageFacts DEF IInv
  <2>2. ASSUME NEW a \in Memory \cap S PROVE a \in Data(e)
    <3>1. /\ a \in Int /\ a >= e.addr + pos.off + pos.xfer
          /\ a <= e.addr + pos.off + pos.xfer + chunk - 1
      BY <1>3, <1>4, <2>2
    <3>2. a >= e.addr /\ a <= e.addr + e.len - 1  BY <1>3, <1>4, <3>1
    <3> QED  BY <1>3, <3>1, <3>2 DEF Data
  <2> QED  BY <2>1, <2>2
<1>7. ASSUME dev # "gone", NEW a \in Memory \cap S PROVE mem[a] \in {Erased, a}
  <2>1. CASE job.mass  BY <1>1, <1>7, <2>1 DEF IInv, Fresh, Piece
  <2>2. CASE ~job.mass
    <3>1. a \in (Here + pos.xfer) .. (Here + pos.wsize - 1)  BY <1>3, <1>4, <1>7
    <3> QED  BY <1>1, <1>5, <1>7, <2>2, <3>1 DEF IInv, Fresh, Piece
  <2> QED  BY <2>1, <2>2
<1>8. /\ tool \in Ops /\ c \in Commands /\ Sends(tool, c)
      /\ dev # "gone" => Safe(c, ptr, mem)
  <2>1. c \in Commands  BY <1>3, <1>4 DEF Commands
  <2>2. dev # "gone" => Safe(c, ptr, mem)  BY <1>2, <1>6, <1>7 DEF Safe, Fits
  <2> QED  BY <1>1, <2>1, <2>2 DEF Ops, Sends
<1>9. CASE Checked /\ Go("chunk") /\ pos' = [pos EXCEPT !.xfer = @ + chunk]
  <2>1. /\ dev = "dnBUSY" /\ dev' = "dnIDLE" /\ pend.op = "data" /\ pend.at = Here + pos.xfer
        /\ pend.n = chunk /\ Perform /\ DeviceType' /\ Pending'
    BY <1>1, <1>8, <1>9, CheckedFacts DEF Sends
  <2>2. mem' = [a \in Memory |-> IF a \in S THEN a ELSE mem[a]]
    BY <1>2, <2>1, Performing DEF IInv
  <2>3. /\ tool' = "chunk" /\ step' = "send" /\ job' = job
        /\ pos'.elem = pos.elem /\ pos'.off = pos.off /\ pos'.wsize = pos.wsize
        /\ pos'.exits = pos.exits /\ pos'.xfer = pos.xfer + chunk
        /\ Elements' = Elements /\ Here' = Here /\ Size' = Size /\ xfer_total' = xfer_total
    <3>1. /\ tool' = "chunk" /\ step' = "send" /\ job' = job
          /\ pos'.elem = pos.elem /\ pos'.off = pos.off /\ pos'.wsize = pos.wsize
          /\ pos'.exits = pos.exits /\ pos'.xfer = pos.xfer + chunk
      BY <1>9 DEF Checked, Go, IInv, HostType
    <3>2. Elements' = Elements  BY <3>1, JobKept
    <3> QED  BY <3>1, <3>2 DEF Here, Size, xfer_total
  <2>4. HostType'
    <3>1. pos.xfer + chunk \in Nat  BY <1>3, <1>4
    <3> QED  BY <1>9, <2>3, <3>1 DEF IInv, HostType, Writing, Piece
  <2>5. InStep'  BY <2>3 DEF InStep, Ops, Closing
  <2>6. InFile'
    <3>1. InPiece'  BY <1>2, <1>4, <1>5, <2>3 DEF InPiece
    <3>2. Aligned'  BY <1>2, <2>3 DEF Aligned
    <3> QED  BY <1>2, <2>3, <3>1, <3>2 DEF InFile, Writing, Piece, Closing
  <2>7. Fresh'
    <3>1. ASSUME job.mass, NEW a \in Memory PROVE mem'[a] \in {Erased, a}
      <4>1. mem[a] \in {Erased, a}  BY <1>1, <2>1, <3>1 DEF IInv, Fresh, Piece
      <4> QED  BY <2>2, <4>1
    <3>2. ASSUME ~job.mass,
                 NEW a \in Memory \cap ((Here + pos.xfer + chunk) .. (Here + pos.wsize - 1))
          PROVE mem'[a] \in {Erased, a}
      <4>1. a \in (Here + pos.xfer) .. (Here + pos.wsize - 1)  BY <1>3, <1>4, <3>2
      <4>2. mem[a] \in {Erased, a}
        BY <1>1, <1>5, <2>1, <3>2, <4>1 DEF IInv, Fresh, Piece
      <4> QED  BY <2>2, <3>2, <4>2
    <3>3. Here + pos'.xfer = Here + pos.xfer + chunk  BY <1>3, <1>4, <2>3
    <3> QED  BY <2>3, <3>1, <3>2, <3>3 DEF Fresh
  <2>8. WrittenSoFar'
    <3>1. ASSUME NEW k \in DOMAIN Elements, NEW a \in Memory, Kept(k, a), Past(k, a)'
          PROVE  mem'[a] = a
      <4>1. CASE Past(k, a)
        <5>1. mem[a] = a  BY <1>1, <1>2, <2>1, <3>1, <4>1 DEF IInv, WrittenSoFar, Writing, Piece
        <5> QED  BY <2>2, <3>1, <5>1
      <4>2. CASE ~Past(k, a)
        <5>1. k = pos.elem /\ a < e.addr + pos.off + (pos.xfer + chunk)
          BY <2>3, <3>1, <4>2 DEF Past, Piece
        <5>2. ~(a < e.addr + pos.off + pos.xfer)  BY <1>1, <4>2, <5>1 DEF Past, Piece
        <5>3. a \in Nat  BY PageFacts
        <5>4. a \in S  BY <1>3, <1>4, <5>1, <5>2, <5>3
        <5> QED  BY <2>2, <3>1, <5>4
      <4> QED  BY <4>1, <4>2
    <3>2. \A k, a : Kept(k, a)' = Kept(k, a)  BY <2>3 DEF Kept
    <3> QED  BY <2>3, <3>1, <3>2 DEF WrittenSoFar
  <2> QED  BY <2>1, <2>4, <2>5, <2>6, <2>7, <2>8 DEF IInv
<1>10. c.op # "leave"  OBVIOUS
<1> QED  BY <1>1, <1>8, <1>9, <1>10, Operating

-----------------------------------------------------------------------------
(* init ends with any bootloader, busy or not.                             *)
LEMMA Initialized ==
  ASSUME IInv, tool = "init", DeviceType', Pending', UNCHANGED <<job, pos>>,
         Go(AfterInit) \/ tool' = "init"
  PROVE  IInv'
<1>1. CASE tool' = "init"
  <2>1. HostType'  BY <1>1 DEF IInv, HostType
  <2>2. InStep' /\ Fresh' /\ WrittenSoFar'
    BY <1>1 DEF InStep, Fresh, WrittenSoFar, Ops, Closing, Writing, Piece
  <2>3. InFile'  BY <1>1 DEF IInv, InFile, Writing, Piece, Closing
  <2> QED  BY <2>1, <2>2, <2>3 DEF IInv
<1>2. CASE Go(AfterInit)
  <2>1. /\ step' = "send" /\ pos.elem = 1 /\ pos.off = 0
        /\ \/ job.mass /\ tool' = "mass"
           \/ ~job.mass /\ job.path /\ tool' = "read"
           \/ ~job.path /\ tool' \in {"jump", "end"}
    BY <1>2 DEF Go, AfterInit, AfterMass, AfterPath, IInv, InFile, HostType
  <2>2. HostType'  BY <2>1 DEF IInv, HostType, Ops
  <2>3. InStep'  BY <2>1 DEF InStep, Ops, Closing
  <2>4. InFile'  BY <2>1 DEF InFile, Writing, Piece, Closing
  <2>5. Fresh' /\ WrittenSoFar'
    BY <2>1 DEF Fresh, WrittenSoFar, Closing, Writing, Piece
  <2> QED  BY <2>2, <2>3, <2>4, <2>5 DEF IInv
<1> QED  BY <1>1, <1>2

(* Asking for the status may end what an earlier run began.                *)
LEMMA InitStatusKeeps ==
  ASSUME IInv, InitStatus
  PROVE  IInv'
<1>1. PICK r \in Replies :
        /\ Reply(r)
        /\ IF r = "dfuIDLE" THEN Go(AfterInit)
           ELSE /\ step' = IF r \in {"dnIDLE", "upIDLE"} THEN "abort" ELSE "clear"
                /\ UNCHANGED tool
  BY DEF InitStatus
<1>2. tool = "init" /\ UNCHANGED <<job, pos>>  BY DEF InitStatus
<1>3. DeviceType' /\ Pending'  BY <1>1, <1>2, Replying DEF IInv
<1>4. Go(AfterInit) \/ tool' = "init"  BY <1>1, <1>2
<1> QED  BY <1>2, <1>3, <1>4, Initialized

(* Clearing the status of a bootloader at work may let it end or not.      *)
LEMMA InitRequestKeeps ==
  ASSUME IInv, InitRequest
  PROVE  IInv'
<1>1. tool = "init" /\ UNCHANGED <<job, pos>> /\ (Go(AfterInit) \/ tool' = "init")
  BY DEF InitRequest
<1>2. CASE abort_request
  <2>1. DeviceType' /\ Pending'  BY <1>1, <1>2, Resting DEF abort_request, IInv
  <2> QED  BY <1>1, <2>1, Initialized
<1>3. CASE clr_status
  <2>1. CASE dev = "error" /\ dev' = "dfuIDLE" /\ UNCHANGED <<pend, ptr, mem>>
    <3>1. DeviceType' /\ Pending'  BY <1>1, <2>1, Resting DEF IInv
    <3> QED  BY <1>1, <3>1, Initialized
  <2>2. CASE dev = "dnBUSY" /\ dev' = "error" /\ (Tear \/ Perform) /\ UNCHANGED pend
    <3>1. mem' \in [Memory -> Int] /\ ptr' \in Nat
      BY <2>2, TearType, PerformType DEF IInv, DeviceType
    <3>2. DeviceType' /\ Pending'  BY <2>2, <3>1 DEF IInv, DeviceType, Pending
    <3> QED  BY <1>1, <3>2, Initialized
  <2>3. CASE UNCHANGED <<dev, pend, ptr, mem>>
    <3>1. DeviceType' /\ Pending'  BY <1>1, <2>3, Unchanging DEF IInv, device
    <3> QED  BY <1>1, <3>1, Initialized
  <2> QED  BY <1>3, <2>1, <2>2, <2>3 DEF clr_status
<1> QED  BY <1>2, <1>3 DEF InitRequest

-----------------------------------------------------------------------------
(* The steps between the operations.                                       *)
LEMMA ReadKeeps ==
  ASSUME FilesRead, IInv, ReadFile
  PROVE  IInv'
<1>1. /\ tool = "read" /\ UNCHANGED <<job, pos>> /\ UNCHANGED device
      /\ tool' = "failed" \/ Go("nothing") \/ Go("write")
  BY DEF ReadFile, Fail, Go
<1>2. DeviceType' /\ Pending'  BY <1>1, Unchanging DEF IInv
<1>3. CASE tool' = "failed"  BY <1>1, <1>2, <1>3, Failing DEF IInv
<1>4. CASE Go("nothing")
  <2>1. tool' = "nothing"  BY <1>4 DEF Go
  <2>2. HostType'  BY <1>1, <2>1 DEF IInv, HostType, Ends
  <2>3. InStep' /\ InFile' /\ Fresh' /\ WrittenSoFar'
    BY <2>1 DEF InStep, InFile, Fresh, WrittenSoFar, Ops, Closing, Writing, Piece
  <2> QED  BY <1>2, <2>2, <2>3 DEF IInv
<1>5. CASE Go("write")
  <2>1. /\ tool' = "write" /\ job.path /\ pos.elem = 1 /\ pos.off = 0 /\ dev' = dev
        /\ mem' = mem /\ Elements' = Elements
    BY <1>1, <1>5, JobKept DEF Go, IInv, InFile, device
  <2>2. HostType'  BY <1>1, <2>1 DEF IInv, HostType, Writing
  <2>3. InStep'  BY <2>1 DEF InStep, Ops, Closing
  <2>4. InFile'  BY <1>1, <2>1 DEF InFile, Aligned, Writing, Piece, Closing
  <2>5. Fresh'  BY <1>1, <2>1 DEF IInv, Fresh, Piece
  <2>6. WrittenSoFar'
    <3>1. ASSUME NEW k \in DOMAIN Elements, NEW a \in Memory, Kept(k, a), Past(k, a)'
          PROVE  FALSE
      <4>1. k \in Nat \ {0} /\ Elements[k].addr \in Nat /\ Elements[k].len \in Nat
        BY <3>1, ElementFacts DEF IInv
      <4>2. k = 1 /\ a < Elements[k].addr + 0 + 0
        BY <1>1, <2>1, <3>1, <4>1 DEF Past, Piece
      <4>3. a \in Data(Elements[k]) /\ a \in Nat  BY <3>1, PageFacts DEF Kept
      <4> QED  BY <4>1, <4>2, <4>3 DEF Data
    <3>2. \A k, a : Kept(k, a)' = Kept(k, a)  BY <1>1, <2>1 DEF Kept
    <3> QED  BY <2>1, <3>1, <3>2 DEF WrittenSoFar
  <2> QED  BY <1>2, <2>2, <2>3, <2>4, <2>5, <2>6 DEF IInv
<1> QED  BY <1>1, <1>3, <1>4, <1>5

(* What a piece is: to the end of the element or of the page.              *)
LEMMA PieceCut ==
  ASSUME NEW a \in Nat, NEW size \in Nat \ {0}, job.mass \in BOOLEAN
  PROVE  LET n == write_size(a, size) IN
         /\ Holding(a) = {} <=> a \notin Memory
         /\ n \in Nat \ {0} /\ n <= size
         /\ n = size \/ (~job.mass /\ a \in Memory /\ a + n = page_addr(a) + page_size(a))
         /\ ~job.mass /\ a \in Memory => a + n <= page_addr(a) + page_size(a)
<1>1. Holding(a) = {} <=> a \notin Memory
  BY LayoutAssumption DEF Holding, Memory
<1>2. CASE job.mass \/ a \notin Memory
  BY <1>1, <1>2 DEF write_size
<1>3. CASE ~job.mass /\ a \in Memory
  <2>1. write_size(a, size) = Least(size, page_addr(a) + page_size(a) - a)
    BY <1>1, <1>3 DEF write_size
  <2>2. page_addr(a) \in Nat /\ page_size(a) \in Nat /\ a < page_addr(a) + page_size(a)
    BY <1>3, PageFacts
  <2> QED  BY <1>1, <1>3, <2>1, <2>2 DEF Least
<1> QED  BY <1>2, <1>3

(* The next element, the next piece of one, or the end of the writing.     *)
LEMMA ElementsKeep ==
  ASSUME FilesRead, IInv, write_elements
  PROVE  IInv'
<1> DEFINE e == Elements[pos.elem]
           size == e.size - pos.off
<1>1. tool = "write" /\ job' = job /\ UNCHANGED device  BY DEF write_elements
<1>2. /\ job.path /\ (pos.elem \in DOMAIN Elements /\ pos.off < Size => Aligned)
      /\ Elements' = Elements /\ dev' = dev /\ mem' = mem
      /\ pos.elem \in Nat \ {0} /\ pos.off \in Nat
  BY <1>1, JobKept DEF IInv, HostType, InFile, Writing, device
<1>3. DeviceType' /\ Pending'  BY <1>1, Unchanging DEF IInv
<1>4. \A k, a : Kept(k, a)' = Kept(k, a)  BY <1>1, <1>2 DEF Kept
<1>5. Len(Elements) \in Nat /\ DOMAIN Elements = 1 .. Len(Elements)
  BY ElementFacts DEF IInv
<1>6. ASSUME dev # "gone", NEW k \in DOMAIN Elements, NEW a \in Memory, Kept(k, a), Past(k, a)
      PROVE  mem[a] = a
  BY <1>1, <1>2, <1>6 DEF IInv, WrittenSoFar, Writing
<1>7. CASE pos.elem > Len(Elements)
  <2>1. tool' = "jump" /\ step' = "send" /\ pos' = pos  BY <1>7 DEF write_elements, Go
  <2>2. HostType'  BY <1>1, <2>1 DEF IInv, HostType, Ops
  <2>3. InStep'  BY <2>1 DEF InStep, Ops, Closing
  <2>4. InFile'  BY <1>2, <1>7, <2>1 DEF InFile, Writing, Piece, Closing
  <2>5. Fresh'  BY <2>1 DEF Fresh, Piece
  <2>6. \A k, a : Past(k, a)' = Past(k, a)  BY <1>1, <1>2, <2>1 DEF Past, Piece
  <2>7. WrittenSoFar'  BY <1>2, <1>4, <1>6, <2>1, <2>6 DEF WrittenSoFar, Closing
  <2> QED  BY <1>3, <2>2, <2>3, <2>4, <2>5, <2>7 DEF IInv
<1>8. CASE pos.elem <= Len(Elements)
  <2>0. pos.elem \in DOMAIN Elements  BY <1>2, <1>5, <1>8
  <2>1. e.addr \in Nat /\ e.size \in Nat /\ e.len \in Nat /\ e.len <= e.size /\ size \in Int
    BY <1>2, <2>0, ElementFacts DEF IInv
  <2>2. CASE size <= 0
    <3>1. /\ tool' = "write" /\ step' = step
          /\ pos' = [pos EXCEPT !.elem = @ + 1, !.off = 0]
      BY <1>1, <1>2, <1>5, <1>8, <2>2 DEF write_elements
    <3>2. pos'.elem = pos.elem + 1 /\ pos'.off = 0 /\ HostType'
      <4>1. pos \in [elem : Nat \ {0}, off : Nat, wsize : Nat, xfer : Nat, exits : {0, 1}]
        BY DEF IInv, HostType
      <4>2. /\ pos'.elem = pos.elem + 1 /\ pos'.off = 0
            /\ pos' \in [elem : Nat \ {0}, off : Nat, wsize : Nat, xfer : Nat, exits : {0, 1}]
        <5>1. pos.elem + 1 \in Nat \ {0}  BY <1>2
        <5>2. pos' = [elem |-> pos.elem + 1, off |-> 0, wsize |-> pos.wsize, xfer |-> pos.xfer,
                      exits |-> pos.exits]
          BY <3>1, <4>1
        <5> QED  BY <4>1, <5>1, <5>2
      <4> QED  BY <1>1, <3>1, <4>2 DEF IInv, HostType
    <3>3. InStep'  BY <3>1 DEF InStep, Ops, Closing
    <3>4. InFile'
      <4>1. Aligned'  BY <3>2 DEF Aligned
      <4> QED  BY <1>1, <1>2, <3>1, <3>2, <4>1 DEF InFile, Writing, Piece, Closing
    <3>5. Fresh'  BY <1>1, <1>2, <3>1 DEF IInv, Fresh, Piece
    <3>6. ASSUME NEW k \in DOMAIN Elements, NEW a \in Memory, Kept(k, a), Past(k, a)'
          PROVE  Past(k, a)
      <4>1. /\ k \in Nat /\ a \in Nat /\ Elements[k].addr \in Nat /\ Elements[k].len \in Nat
            /\ a >= Elements[k].addr /\ a < Elements[k].addr + Elements[k].len
        <5>1. k \in Nat /\ Elements[k].addr \in Nat /\ Elements[k].len \in Nat
          BY <1>5, <3>6, ElementFacts DEF IInv
        <5>2. a \in Data(Elements[k]) /\ a \in Nat  BY <3>6, PageFacts DEF Kept
        <5> QED  BY <5>1, <5>2 DEF Data
      <4>2. k < pos.elem + 1 \/ (k = pos.elem + 1 /\ a < Elements[k].addr + 0 + 0)
        BY <1>1, <1>2, <3>1, <3>2, <3>6 DEF Past, Piece
      <4>3. k < pos.elem \/ k = pos.elem  BY <1>2, <4>1, <4>2
      <4>4. CASE k = pos.elem
        <5>1. a < e.addr + pos.off + 0  BY <1>2, <2>1, <2>2, <4>1, <4>4
        <5> QED  BY <1>1, <4>4, <5>1 DEF Past, Piece
      <4> QED  BY <4>3, <4>4 DEF Past
    <3>7. WrittenSoFar'
      BY <1>2, <1>4, <1>6, <3>1, <3>6 DEF WrittenSoFar, Closing, Writing
    <3> QED  BY <1>3, <3>2, <3>3, <3>4, <3>5, <3>7 DEF IInv
  <2>3. CASE size > 0
    <3>1. /\ pos' = [pos EXCEPT !.wsize = write_size(Here, size), !.xfer = 0]
          /\ Go(IF job.mass \/ Holding(Here) = {} THEN "chunk" ELSE "erase")
      BY <1>2, <1>5, <1>8, <2>1, <2>3 DEF write_elements
    <3>2. Here = e.addr + pos.off /\ Here \in Nat /\ size \in Nat \ {0}
      BY <1>2, <2>1, <2>3 DEF Here
    <3> DEFINE n == write_size(Here, size)
    <3>3. /\ Holding(Here) = {} <=> Here \notin Memory
          /\ n \in Nat \ {0} /\ n <= size
          /\ n = size \/ (~job.mass /\ Here \in Memory /\ Here + n = page_addr(Here) + page_size(Here))
          /\ ~job.mass /\ Here \in Memory => Here + n <= page_addr(Here) + page_size(Here)
      BY <3>2, PieceCut DEF IInv, HostType
    <3> HIDE DEF n
    <3>4. /\ pos'.elem = pos.elem /\ pos'.off = pos.off /\ pos'.wsize = n /\ pos'.xfer = 0
          /\ pos' \in [elem : Nat \ {0}, off : Nat, wsize : Nat, xfer : Nat, exits : {0, 1}]
      BY <3>1, <3>3 DEF n, IInv, HostType
    <3>5. /\ step' = "send"
          /\ \/ tool' = "chunk" /\ (job.mass \/ Here \notin Memory)
             \/ tool' = "erase" /\ ~job.mass /\ Here \in Memory
      BY <3>1, <3>3 DEF Go
    <3>6. Here' = Here /\ Size' = Size  BY <1>2, <3>4 DEF Here, Size
    <3>7. HostType'  BY <1>1, <3>4, <3>5 DEF IInv, HostType, Writing, Piece
    <3>8. InStep'  BY <3>5 DEF InStep, Ops, Closing
    <3>9. InFile'
      <4>1. InPiece'
        <5>1. pos.off < Size /\ pos.off + n <= Size /\ (n = size <=> pos.off + n = Size)
          BY <1>2, <2>1, <3>2, <3>3 DEF Size
        <5> QED  BY <1>1, <1>2, <2>0, <3>3, <3>4, <3>6, <5>1 DEF InPiece
      <4>2. Aligned'
        <5>1. Aligned  BY <1>2, <2>0, <2>1, <2>3 DEF Size
        <5> QED  BY <1>1, <3>4, <3>6, <5>1 DEF Aligned
      <4> QED  BY <1>1, <1>2, <3>4, <3>5, <3>6, <4>1, <4>2 DEF InFile, Writing, Piece, Closing
    <3>10. Fresh'  BY <1>1, <1>2, <3>5, <3>6 DEF IInv, Fresh, Piece
    <3>11. ASSUME NEW k \in DOMAIN Elements, NEW a \in Memory, Past(k, a)'
           PROVE  Past(k, a)
      BY <1>1, <1>2, <3>4, <3>5, <3>11 DEF Past, Piece
    <3>12. WrittenSoFar'
      BY <1>2, <1>4, <1>6, <3>5, <3>11 DEF WrittenSoFar, Closing
    <3> QED  BY <1>3, <3>7, <3>8, <3>9, <3>10, <3>12 DEF IInv
  <2> QED  BY <2>1, <2>2, <2>3
<1> QED  BY <1>2, <1>5, <1>7, <1>8

(* The next chunk, or the next piece, which starts a page if it starts in  *)
(* the flash at all.                                                       *)
LEMMA MemoryKeeps ==
  ASSUME FilesRead, IInv, write_memory
  PROVE  IInv'
<1> DEFINE e == Elements[pos.elem]
<1>1. tool = "chunk" /\ job' = job /\ UNCHANGED device  BY DEF write_memory
<1>2. /\ job.path /\ InPiece /\ Aligned /\ Elements' = Elements /\ dev' = dev /\ mem' = mem
      /\ pos \in [elem : Nat \ {0}, off : Nat, wsize : Nat, xfer : Nat, exits : {0, 1}]
  BY <1>1, JobKept DEF IInv, HostType, InFile, InPiece, Writing, Piece, device
<1>3. /\ e.addr \in Nat /\ e.size \in Nat /\ e.len \in Nat /\ pos.elem \in DOMAIN Elements
      /\ pos.elem \in Nat /\ pos.off \in Nat /\ pos.wsize \in Nat \ {0} /\ pos.xfer \in Nat
      /\ Here = e.addr + pos.off /\ Here \in Nat
      /\ xfer_total \in Int /\ xfer_total <= pos.wsize /\ pos.off + xfer_total <= e.len
      /\ xfer_total = pos.wsize \/ pos.off + xfer_total = e.len
  BY <1>2, PieceFacts DEF IInv
<1>4. DeviceType' /\ Pending'  BY <1>1, Unchanging DEF IInv
<1>5. \A k, a : Kept(k, a)' = Kept(k, a)  BY <1>1, <1>2 DEF Kept
<1>6. ASSUME dev # "gone", NEW k \in DOMAIN Elements, NEW a \in Memory, Kept(k, a), Past(k, a)
      PROVE  mem[a] = a
  BY <1>1, <1>2, <1>6 DEF IInv, WrittenSoFar, Writing, Piece
<1>7. CASE pos.xfer < xfer_total
  <2>1. tool' = "addr" /\ step' = "send" /\ pos' = pos  BY <1>7 DEF write_memory, Go
  <2>2. Here' = Here /\ Size' = Size /\ xfer_total' = xfer_total
    BY <1>2, <2>1 DEF Here, Size, xfer_total
  <2>3. HostType'  BY <1>1, <2>1 DEF IInv, HostType, Ops
  <2>4. InStep'  BY <2>1 DEF InStep, Ops, Closing
  <2>5. InFile'
    <3>1. InPiece'  BY <1>1, <1>2, <2>1, <2>2 DEF InPiece
    <3>2. Aligned'  BY <1>1, <1>2, <2>1, <2>2 DEF Aligned
    <3> QED  BY <1>1, <1>2, <1>7, <2>1, <2>2, <3>1, <3>2 DEF InFile, Writing, Piece, Closing
  <2>6. Fresh'  BY <1>1, <1>2, <2>1, <2>2 DEF IInv, Fresh, Piece
  <2>7. \A k, a : Past(k, a)' = Past(k, a)  BY <1>1, <1>2, <2>1 DEF Past, Piece
  <2>8. WrittenSoFar'
    BY <1>2, <1>5, <1>6, <2>1, <2>7 DEF WrittenSoFar, Closing
  <2> QED  BY <1>4, <2>3, <2>4, <2>5, <2>6, <2>8 DEF IInv
<1>8. CASE ~(pos.xfer < xfer_total)
  <2>1. /\ tool' = "write" /\ step' = "send"
        /\ pos' = [pos EXCEPT !.off = @ + pos.wsize]
    BY <1>8 DEF write_memory, Go
  <2>2. /\ pos'.elem = pos.elem /\ pos'.off = pos.off + pos.wsize
        /\ pos' \in [elem : Nat \ {0}, off : Nat, wsize : Nat, xfer : Nat, exits : {0, 1}]
    <3>1. pos.off + pos.wsize \in Nat  BY <1>3
    <3> QED  BY <1>2, <2>1, <3>1
  <2>3. HostType'  BY <1>1, <2>1, <2>2 DEF IInv, HostType, Writing
  <2>4. InStep'  BY <2>1 DEF InStep, Ops, Closing
  <2>5. ASSUME pos'.off < Size' PROVE Aligned'
    <3>1. Size' = Size /\ Size = e.size  BY <1>2, <2>2 DEF Size
    <3>2. ~job.mass /\ Here \in Memory /\ Here + pos.wsize = page_addr(Here) + page_size(Here)
      BY <1>2, <1>3, <2>2, <2>5, <3>1 DEF InPiece
    <3>3. Here' = page_addr(Here) + page_size(Here)
      <4>1. Here' = e.addr + (pos.off + pos.wsize)  BY <1>2, <2>2 DEF Here
      <4> QED  BY <1>3, <3>2, <4>1
    <3>4. Here' \in Memory => page_addr(Here') = Here'  BY <3>2, <3>3, NextPage
    <3>5. page_addr(Here)' = page_addr(Here')  BY DEF page_addr, page_size, Holding
    <3> QED  BY <3>4, <3>5 DEF Aligned
  <2>6. InFile'  BY <1>1, <1>2, <2>1, <2>5 DEF InFile, Writing, Piece, Closing
  <2>7. Fresh'  BY <1>1, <1>2, <2>1 DEF IInv, Fresh, Piece
  <2>8. ASSUME NEW k \in DOMAIN Elements, NEW a \in Memory, Kept(k, a), Past(k, a)'
        PROVE  Past(k, a)
    <3>1. k < pos.elem \/ (k = pos.elem /\ a < e.addr + (pos.off + pos.wsize) + 0)
      BY <1>2, <2>1, <2>2, <2>8 DEF Past, Piece
    <3>2. CASE k = pos.elem /\ a < e.addr + (pos.off + pos.wsize) + 0
      <4>1. a \in Data(e) /\ a \in Nat  BY <2>8, <3>2, PageFacts DEF Kept
      <4>2. a < e.addr + e.len  BY <1>3, <4>1 DEF Data
      <4>3. a < e.addr + pos.off + pos.xfer  BY <1>3, <1>8, <3>2, <4>1, <4>2
      <4> QED  BY <1>1, <3>2, <4>3 DEF Past, Piece
    <3> QED  BY <3>1, <3>2 DEF Past
  <2>9. WrittenSoFar'
    BY <1>2, <1>5, <1>6, <2>1, <2>8 DEF WrittenSoFar, Closing
  <2> QED  BY <1>4, <2>3, <2>4, <2>6, <2>7, <2>9 DEF IInv
<1> QED  BY <1>7, <1>8

-----------------------------------------------------------------------------
(* The end of a run.  exit_dfu has left the bootloader, or is left by it.  *)
LEMMA LeftKeeps ==
  ASSUME IInv, tool = "leave", step = "status", Left, DeviceType', Pending', job' = job,
         UNCHANGED <<ptr, mem>>, dev' \in {"manSYNC", "gone"}
  PROVE  IInv'
<1>1. Elements' = Elements  BY JobKept
<1>2. /\ step' = "send" /\ tool' \in {"jump", "end"}
      /\ pos' = pos \/ pos' = [pos EXCEPT !.exits = 1]
  BY DEF Left, Go
<1>3. pos'.elem = pos.elem /\ pos'.off = pos.off
  BY <1>2 DEF IInv, HostType
<1>4. HostType'  BY <1>2 DEF IInv, HostType, Ops
<1>5. InStep'  BY <1>2 DEF InStep, Ops, Closing
<1>6. InFile'  BY <1>1, <1>2, <1>3 DEF IInv, InFile, Writing, Piece, Closing
<1>7. Fresh'  BY <1>2 DEF Fresh, Piece
<1>8. \A k, a : Kept(k, a)' = Kept(k, a) /\ Past(k, a)' = Past(k, a)
  BY <1>1, <1>2, <1>3 DEF Kept, Past, Piece
<1>9. WrittenSoFar'  BY <1>1, <1>2, <1>8 DEF IInv, WrittenSoFar, Closing
<1> QED  BY <1>4, <1>5, <1>6, <1>7, <1>9 DEF IInv

(* exit_dfu leaves only when nothing is under way.                         *)
LEMMA ExitKeeps ==
  ASSUME IInv, exit_dfu
  PROVE  IInv'
<1>1. tool = "leave" /\ job' = job  BY DEF exit_dfu
<1>2. CASE /\ step = "send" /\ Download([op |-> "leave", at |-> 0, n |-> 0]) /\ step' = "status"
           /\ UNCHANGED <<tool, pos>>
  <2>1. /\ dev \in {"dfuIDLE", "dnIDLE"} /\ dev' = "manSYNC" /\ UNCHANGED <<ptr, mem>>
        /\ pend' = [op |-> "leave", at |-> 0, n |-> 0] /\ Elements' = Elements
    BY <1>1, <1>2, JobKept DEF Download
  <2>2. DeviceType' /\ Pending'
    BY <2>1 DEF IInv, DeviceType, Pending, Commands
  <2>3. HostType'  BY <1>1, <1>2 DEF IInv, HostType
  <2>4. InStep'  BY <1>1, <1>2, <2>1 DEF InStep, Ops
  <2>5. InFile'  BY <1>1, <1>2, <2>1 DEF IInv, InFile, Writing, Piece, Closing
  <2>6. Fresh'  BY <1>1, <1>2 DEF Fresh, Piece
  <2>7. \A k, a : Kept(k, a)' = Kept(k, a) /\ Past(k, a)' = Past(k, a)
    BY <1>1, <1>2, <2>1 DEF Kept, Past, Piece
  <2>8. WrittenSoFar'  BY <1>1, <1>2, <2>1, <2>7 DEF IInv, WrittenSoFar, Closing
  <2> QED  BY <2>2, <2>3, <2>4, <2>5, <2>6, <2>8 DEF IInv
<1>3. CASE Stalled /\ Fail
  BY <1>1, <1>3, FailedKeeps DEF Failed, Fail
<1>4. CASE step = "status" /\ \E r \in Replies : Reply(r) /\ Left
  <2>1. PICK r \in Replies : Reply(r) /\ Left  BY <1>4
  <2>2. dev = "manSYNC"  BY <1>1, <1>4, <2>1 DEF IInv, InStep, Reply
  <2>3. dev' = "gone" /\ UNCHANGED <<ptr, mem>>  BY <2>1, <2>2 DEF Reply
  <2>4. DeviceType' /\ Pending'  BY <1>1, <2>1, Replying DEF IInv
  <2> QED  BY <1>1, <1>4, <2>1, <2>3, <2>4, LeftKeeps
<1> QED  BY <1>2, <1>3, <1>4 DEF exit_dfu

(* The end of main keeps what was written.                                 *)
LEMMA RunEndKeeps ==
  ASSUME IInv, CommandRun
  PROVE  IInv'
<1>1. /\ tool = "end" /\ tool' \in {"finished", "nothing"}
      /\ UNCHANGED <<job, pos>> /\ UNCHANGED device
  BY DEF CommandRun
<1>2. Elements' = Elements /\ dev' = dev /\ mem' = mem  BY <1>1, JobKept DEF device
<1>3. DeviceType' /\ Pending'  BY <1>1, Unchanging DEF IInv
<1>4. HostType'  BY <1>1 DEF IInv, HostType, Ends
<1>5. InStep'  BY <1>1, <1>2 DEF IInv, InStep, Ops, Closing
<1>6. InFile'  BY <1>1, <1>2 DEF IInv, InFile, Writing, Piece, Closing
<1>7. Fresh'  BY <1>1 DEF Fresh, Piece
<1>8. \A k, a : Kept(k, a)' = Kept(k, a) /\ Past(k, a)' = Past(k, a)
  BY <1>1, <1>2 DEF Kept, Past, Piece
<1>9. WrittenSoFar'  BY <1>1, <1>2, <1>8 DEF IInv, WrittenSoFar, Closing, Writing, Piece
<1> QED  BY <1>3, <1>4, <1>5, <1>6, <1>7, <1>9 DEF IInv

(* A transfer that raises ends the run, or is caught at the very end.      *)
LEMMA RaiseKeeps ==
  ASSUME IInv, Raise
  PROVE  IInv'
<1>1. UNCHANGED device /\ job' = job  BY DEF Raise
<1>2. DeviceType' /\ Pending'  BY <1>1, Unchanging DEF IInv
<1>3. CASE tool = "leave" /\ step = "status"
  <2>1. dev \in {"manSYNC", "gone"}  BY <1>3 DEF IInv, InStep
  <2> QED  BY <1>1, <1>2, <1>3, <2>1, LeftKeeps DEF Raise, device
<1>4. CASE ~(tool = "leave" /\ step = "status")
  <2>1. Fail  BY <1>4 DEF Raise
  <2> QED  BY <1>1, <1>2, <2>1, Failing DEF Fail, IInv
<1> QED  BY <1>3, <1>4

(* The cable goes: a run that came to its end has nothing under way.       *)
LEMMA UnplugKeeps ==
  ASSUME IInv, Unplug
  PROVE  IInv'
<1>1. /\ dev' = "gone" /\ UNCHANGED <<pend, job, tool, step, pos>>
      /\ IF dev = "dnBUSY" THEN Tear ELSE UNCHANGED <<ptr, mem>>
  BY DEF Unplug
<1>2. ptr' = ptr /\ mem' \in [Memory -> Int]
  BY <1>1, TearType DEF IInv, DeviceType
<1>3. DeviceType' /\ Pending'  BY <1>1, <1>2 DEF IInv, DeviceType, Pending
<1>4. HostType'  BY <1>1 DEF IInv, HostType
<1>5. Elements' = Elements  BY <1>1, JobKept
<1>6. Here' = Here /\ Size' = Size /\ xfer_total' = xfer_total /\ chunk' = chunk
  <2>1. Here' = Here /\ Size' = Size /\ xfer_total' = xfer_total
    BY <1>1, <1>5 DEF Here, Size, xfer_total
  <2> QED  BY <1>1, <2>1 DEF chunk
<1>7. InStep'
  <2>1. Sends(tool, pend)' = Sends(tool, pend)  BY <1>1, <1>6 DEF Sends
  <2> QED  BY <1>1, <2>1 DEF IInv, InStep, Ops, Closing
<1>8. InFile'
  <2>1. InPiece' = InPiece /\ Aligned' = Aligned
    BY <1>1, <1>5, <1>6 DEF InPiece, Aligned
  <2> QED  BY <1>1, <1>2, <1>5, <1>6, <2>1 DEF IInv, InFile
<1>9. Fresh'  BY <1>1 DEF Fresh
<1>10. WrittenSoFar'
  <2>1. \A k, a : Kept(k, a)' = Kept(k, a) /\ Past(k, a)' = Past(k, a)
    BY <1>1, <1>5 DEF Kept, Past
  <2>2. tool \in Closing /\ job.path => mem' = mem  BY <1>1 DEF IInv, InStep
  <2> QED  BY <1>1, <1>5, <2>1, <2>2 DEF IInv, WrittenSoFar
<1> QED  BY <1>3, <1>4, <1>7, <1>8, <1>9, <1>10 DEF IInv

(* Starting the bootloader again leaves the flash as it is.                *)
LEMMA PlugKeeps ==
  ASSUME IInv, Plug
  PROVE  IInv'
<1>1. /\ tool \in Ends /\ dev' = "dfuIDLE" /\ pend' = Idle /\ ptr' = 0 /\ tool' = tool
      /\ UNCHANGED <<mem, job, pos>>
  BY DEF Plug
<1>2. Elements' = Elements  BY <1>1, JobKept
<1>3. DeviceType' /\ Pending'
  BY <1>1 DEF IInv, DeviceType, Pending, Commands, Idle
<1>4. HostType'  BY <1>1 DEF IInv, HostType
<1>5. InStep'  BY <1>1 DEF InStep, Ops, Ends, Closing
<1>6. InFile'  BY <1>1, <1>2 DEF IInv, InFile, Writing, Piece, Closing, Ends
<1>7. Fresh'  BY <1>1 DEF Fresh, Piece, Ends
<1>8. \A k, a : Kept(k, a)' = Kept(k, a) /\ Past(k, a)' = Past(k, a)
  BY <1>1, <1>2 DEF Kept, Past
<1>9. WrittenSoFar'
  BY <1>1, <1>2, <1>8 DEF IInv, WrittenSoFar, Closing, Writing, Piece, Ends
<1> QED  BY <1>3, <1>4, <1>5, <1>6, <1>7, <1>9 DEF IInv

(* A new run promises nothing yet.                                         *)
LEMMA StartKeeps ==
  ASSUME IInv, Start
  PROVE  IInv'
<1>1. /\ tool' = "init" /\ pos' = Home /\ UNCHANGED device /\ job' = job
  BY DEF Start
<1>2. DeviceType' /\ Pending'  BY <1>1, Unchanging DEF IInv
<1>3. HostType'  BY <1>1 DEF IInv, HostType, Home
<1>4. InStep' /\ Fresh' /\ WrittenSoFar'
  BY <1>1 DEF InStep, Fresh, WrittenSoFar, Ops, Closing, Writing, Piece
<1>5. InFile'  BY <1>1 DEF InFile, Writing, Piece, Closing, Home
<1> QED  BY <1>2, <1>3, <1>4, <1>5 DEF IInv

-----------------------------------------------------------------------------
(* The first bootloader has nothing under way.                             *)
LEMMA Initially ==
  ASSUME Init
  PROVE  IInv
<1>1. DeviceType
  <2>1. Old \in Int  BY DEF Old
  <2> QED  BY <2>1 DEF Init, DeviceType, Commands, Idle
<1>2. HostType  BY DEF Init, HostType, Ends, Home
<1>3. Pending  BY DEF Init, Pending
<1>4. InStep /\ InFile /\ Fresh /\ WrittenSoFar
  BY DEF Init, InStep, InFile, Fresh, WrittenSoFar, Ops, Closing, Writing, Piece, Home
<1> QED  BY <1>1, <1>2, <1>3, <1>4 DEF IInv

(* Nothing changes when nothing happens.                                   *)
LEMMA Stuttering ==
  ASSUME IInv, UNCHANGED vars
  PROVE  IInv'
<1> USE DEF vars
<1>1. DeviceType' /\ Pending'  BY Unchanging DEF IInv, device
<1>2. Elements' = Elements  BY JobKept
<1>3. HostType'  BY DEF IInv, HostType
<1>4. Here' = Here /\ Size' = Size /\ xfer_total' = xfer_total
  BY <1>2 DEF Here, Size, xfer_total
<1>5. Sends(tool, pend)' = Sends(tool, pend)
  <2>1. chunk' = chunk  BY <1>4 DEF chunk
  <2> QED  BY <1>4, <2>1 DEF Sends
<1>6. InStep'  BY <1>5 DEF IInv, InStep
<1>7. InFile'
  <2>1. InPiece' = InPiece /\ Aligned' = Aligned  BY <1>2, <1>4 DEF InPiece, Aligned
  <2> QED  BY <1>2, <1>4, <2>1 DEF IInv, InFile
<1>8. Fresh'  BY <1>4 DEF IInv, Fresh
<1>9. WrittenSoFar'
  <2>1. \A k, a : Kept(k, a)' = Kept(k, a) /\ Past(k, a)' = Past(k, a)
    BY <1>2 DEF Kept, Past
  <2> QED  BY <1>2, <2>1 DEF IInv, WrittenSoFar
<1> QED  BY <1>1, <1>3, <1>6, <1>7, <1>8, <1>9 DEF IInv

(* The invariant is inductive.                                             *)
LEMMA Stepping ==
  ASSUME FilesRead, IInv, [Next]_vars
  PROVE  IInv'
<1>1. CASE UNCHANGED vars  BY <1>1, Stuttering
<1>2. CASE Run
  BY <1>2, InitStatusKeeps, InitRequestKeeps, MassKeeps, ReadKeeps, ElementsKeep, EraseKeeps,
     MemoryKeeps, AddressKeeps, DataKeeps, JumpKeeps, ExitKeeps, RunEndKeeps DEF Run
<1> QED  BY <1>1, <1>2, StartKeeps, RaiseKeeps, UnplugKeeps, PlugKeeps DEF Next

(* At the end every byte that is due was written.                          *)
LEMMA Written ==
  ASSUME FilesRead, IInv, tool \in {"end", "finished"}, NEW a \in Due
  PROVE  mem[a] = a
<1>1. job.path /\ a \in Memory /\ \E k \in DOMAIN Elements : Kept(k, a)
  BY DueFacts DEF IInv, HostType
<1>2. PICK k \in DOMAIN Elements : Kept(k, a)  BY <1>1
<1>3. k < pos.elem
  <2>1. pos.elem > Len(Elements)  BY <1>1 DEF IInv, InFile, Closing
  <2>2. DOMAIN Elements = 1 .. Len(Elements) /\ Len(Elements) \in Nat /\ pos.elem \in Nat
    BY ElementFacts DEF IInv, HostType
  <2> QED  BY <2>1, <2>2
<1> QED  BY <1>1, <1>2, <1>3 DEF IInv, WrittenSoFar, Past, Closing

(* The invariant holds of every run of the tool, and of the runs after it. *)
THEOREM InvariantHolds ==
  ASSUME FilesRead
  PROVE  Spec => []IInv
<1>1. Init => IInv  BY Initially
<1>2. IInv /\ [Next]_vars => IInv'  BY Stepping
<1> QED  BY <1>1, <1>2, PTL DEF Spec

(* pydfu.py says that it is finished only when every byte of the file that *)
(* no later erase of its own took away is in the flash, whatever failed    *)
(* before.                                                                 *)
THEOREM FinishedIsWritten ==
  ASSUME FilesRead
  PROVE  Spec => []FinishedMeansWritten
<1>1. IInv => FinishedMeansWritten  BY Written DEF FinishedMeansWritten
<1> QED  BY <1>1, InvariantHolds, PTL

-----------------------------------------------------------------------------
(* The update.  What the tool does without touching the flash is a stutter *)
(* while it runs, and a stop when it fails.                                *)
Abstract == [Update!FlashNext]_(Update!flashVars)

(* A transfer that changes no cell and ends no run is a stutter of the     *)
(* update.                                                                 *)
LEMMA StaysQuiet ==
  ASSUME job' = job, mem' = mem, tool' = tool \/ (tool \notin Ends /\ tool' \notin Ends)
  PROVE  Abstract
<1>1. Claimed' = Claimed /\ Image' = Image /\ Due' = Due  BY JobKept
<1> QED  BY <1>1 DEF Abstract, Update!flashVars

(* A run that ends without being finished is a stop of the update.         *)
LEMMA StopsShort ==
  ASSUME job' = job, mem' = mem, tool \notin Ends, tool' \in {"failed", "nothing"}
  PROVE  Abstract
<1>1. Claimed' = Claimed /\ Image' = Image /\ Due' = Due  BY JobKept
<1>2. Update!Stop  BY <1>1 DEF Ends, Update!Stop, Update!UpdateUnchanged
<1> QED  BY <1>2 DEF Abstract, Update!FlashNext

(* The page of an address is one of the pages.                             *)
LEMMA PageErasable ==
  ASSUME NEW a \in Memory, job.mass \/ PageOf(a) \cap Claimed # {}
  PROVE  PageOf(a) \in Update!Erasable
BY DEF Pages, Update!Erasable

(* A command carried out by a running tool is a step of the update.        *)
LEMMA Performed ==
  ASSUME IInv, dev = "dnBUSY", Perform, job' = job, tool \notin Ends, tool' \notin Ends
  PROVE  Abstract
<1>1. Claimed' = Claimed /\ Image' = Image /\ Due' = Due  BY JobKept
<1>2. CASE /\ job.mass \/ PageOf(pend.at) \cap Claimed # {}
           /\ pend.at \in Memory
           /\ mem' = [a \in Memory |-> IF a \in PageOf(pend.at) THEN Erased ELSE mem[a]]
  <2>1. PageOf(pend.at) \in Update!Erasable  BY <1>2, PageErasable
  <2>2. Update!Becomes(PageOf(pend.at), Erased)  BY <1>2 DEF Update!Becomes
  <2>3. Update!ErasePage  BY <1>1, <2>1, <2>2 DEF Update!ErasePage, Update!UpdateUnchanged
  <2> QED  BY <2>3 DEF Abstract, Update!FlashNext
<1>3. CASE job.mass /\ mem' = [a \in Memory |-> Erased]
  <2>1. Update!Becomes(Memory, Erased)  BY <1>3 DEF Update!Becomes
  <2>2. Update!EraseWhole  BY <1>1, <1>3, <2>1 DEF Update!EraseWhole, Update!UpdateUnchanged
  <2> QED  BY <2>2 DEF Abstract, Update!FlashNext
<1>4. CASE /\ ptr .. (ptr + pend.n - 1) \subseteq Memory \cap Image
           /\ \A a \in ptr .. (ptr + pend.n - 1) : mem[a] \in {Erased, a}
           /\ mem' = [a \in Memory |-> IF a \in ptr .. (ptr + pend.n - 1) THEN a ELSE mem[a]]
  <2> DEFINE S == ptr .. (ptr + pend.n - 1)
  <2>1. /\ S \in SUBSET Image /\ \A a \in S : mem[a] \in {Erased, a}
        /\ mem' = [a \in Memory |-> IF a \in S THEN a ELSE mem[a]]
    BY <1>4
  <2> HIDE DEF S
  <2>2. Update!Program  BY <1>1, <2>1 DEF Update!Program, Update!UpdateUnchanged
  <2> QED  BY <2>2 DEF Abstract, Update!FlashNext
<1>5. CASE mem' = mem  BY <1>5, StaysQuiet
<1> QED  BY <1>2, <1>3, <1>4, <1>5, Performing DEF IInv

(* A command that is cut short tears no more than it was to change.        *)
LEMMA CutShort ==
  ASSUME IInv, dev = "dnBUSY", Tear, job' = job,
         tool' = tool \/ (tool \notin Ends /\ tool' \notin Ends \ {"failed"})
  PROVE  Abstract
<1>1. Claimed' = Claimed /\ Image' = Image /\ Due' = Due  BY JobKept
<1>2. (IF tool' \in Ends THEN tool' ELSE "running")
        \in {IF tool \in Ends THEN tool ELSE "running",
             IF (IF tool \in Ends THEN tool ELSE "running") = "running" THEN "failed"
             ELSE IF tool \in Ends THEN tool ELSE "running"}
  BY DEF Ends
<1>3. ASSUME NEW S \in Update!Erasable \cup (SUBSET Image) \cup (IF job.mass THEN {Memory} ELSE {}),
             mem' = [a \in Memory |-> IF a \in S THEN Torn ELSE mem[a]]
      PROVE  Abstract
  <2>1. Update!Becomes(S, Torn)  BY <1>3 DEF Update!Becomes
  <2>2. Update!Tear  BY <1>1, <1>2, <1>3, <2>1 DEF Update!Tear, Update!UpdateUnchanged
  <2> QED  BY <2>2 DEF Abstract, Update!FlashNext
<1>4. mem \in [Memory -> Int] /\ pend \in Commands /\ Safe(pend, ptr, mem) /\ Valid(pend)
  BY DEF IInv, DeviceType, Pending
<1>5. CASE mem' = mem
  <2> DEFINE S == {}
  <2>1. mem' = [a \in Memory |-> IF a \in S THEN Torn ELSE mem[a]]  BY <1>4, <1>5
  <2>2. S \in Update!Erasable \cup (SUBSET Image) \cup (IF job.mass THEN {Memory} ELSE {})
    OBVIOUS
  <2> HIDE DEF S
  <2> QED  BY <1>3, <2>1, <2>2
<1>6. CASE mem' = [a \in Memory |-> IF a \in Affected(pend) THEN Torn ELSE mem[a]]
  <2>1. CASE pend.op = "erase"
    <3>1. Affected(pend) = PageOf(pend.at) /\ pend.at \in Memory
      BY <1>4, <2>1 DEF Affected, Valid
    <3>2. PageOf(pend.at) \in Update!Erasable
      BY <1>4, <2>1, <3>1, PageErasable DEF Safe
    <3> QED  BY <1>3, <1>6, <3>1, <3>2
  <2>2. CASE pend.op = "mass"
    <3>1. Affected(pend) = Memory /\ job.mass  BY <1>4, <2>2 DEF Affected, Safe
    <3> DEFINE S == Memory
    <3>2. mem' = [a \in Memory |-> IF a \in S THEN Torn ELSE mem[a]]  BY <1>6, <3>1
    <3>3. S \in Update!Erasable \cup (SUBSET Image) \cup (IF job.mass THEN {Memory} ELSE {})
      BY <3>1
    <3> HIDE DEF S
    <3> QED  BY <1>3, <3>2, <3>3
  <2>3. CASE pend.op = "data"
    <3> DEFINE S == Memory \cap (ptr .. (ptr + pend.n - 1))
    <3>1. Affected(pend) = ptr .. (ptr + pend.n - 1)  BY <2>3 DEF Affected
    <3>2. S \in SUBSET Image  BY <1>4, <2>3 DEF Safe, Fits
    <3>3. mem' = [a \in Memory |-> IF a \in S THEN Torn ELSE mem[a]]  BY <1>6, <3>1
    <3> HIDE DEF S
    <3> QED  BY <1>3, <3>2, <3>3
  <2>4. CASE pend.op \in {"none", "addr", "leave"}
    <3>1. Affected(pend) = {}  BY <2>4 DEF Affected
    <3>2. mem' = mem  BY <1>4, <1>6, <3>1
    <3> QED  BY <1>5, <3>2
  <2> QED  BY <1>4, <2>1, <2>2, <2>3, <2>4 DEF Commands
<1> QED  BY <1>5, <1>6 DEF Tear

-----------------------------------------------------------------------------
(* An answer other than what the operation waits for ends the run.         *)
Refused ==
  /\ \/ Stalled
     \/ /\ step \in {"execute", "check"}
        /\ \E r : Reply(r) /\ (step = "check" => r # "dnIDLE")
  /\ Fail /\ UNCHANGED job

(* Each transfer of an operation is a step of the update.                  *)
LEMMA OperationImplements ==
  ASSUME IInv, tool \in Ops, NEW c,
         \/ Sending(c)
         \/ Executing /\ UNCHANGED <<tool>>
         \/ Refused
         \/ Checked /\ tool' \notin Ends
  PROVE  Abstract
<1>1. tool \notin Ends  BY DEF Ops, Ends
<1>2. CASE Sending(c)  BY <1>2, StaysQuiet DEF Sending, Download
<1>3. CASE Executing /\ UNCHANGED <<tool>>
  <2>1. PICK r : Reply(r)  BY <1>3 DEF Executing
  <2>2. dev = "dnSYNC"  BY <1>3, <2>1 DEF Executing, IInv, InStep, Reply
  <2>3. mem' = mem  BY <2>1, <2>2 DEF Reply
  <2> QED  BY <1>3, <2>3, StaysQuiet DEF Executing
<1>4. CASE Refused
  <2>1. tool' = "failed" /\ job' = job  BY <1>4 DEF Refused, Fail
  <2>2. CASE mem' = mem  BY <1>1, <2>1, <2>2, StopsShort
  <2>3. CASE Stalled  BY <2>2, <2>3 DEF Stalled
  <2>4. CASE /\ step \in {"execute", "check"}
             /\ \E r : Reply(r) /\ (step = "check" => r # "dnIDLE")
    <3>1. PICK r : Reply(r) /\ (step = "check" => r # "dnIDLE")  BY <2>4
    <3>2. CASE dev = "dnBUSY" /\ r = "error" /\ Tear
      BY <1>1, <2>1, <3>2, CutShort DEF Ends
    <3>3. CASE dev = "dnBUSY" /\ r = "dnIDLE"
      <4>1. step = "execute"  BY <2>4, <3>1, <3>3
      <4> QED  BY <3>3, <4>1 DEF IInv, InStep
    <3>4. (dev = "dnBUSY" /\ r = "error" /\ Tear) \/ (dev = "dnBUSY" /\ r = "dnIDLE") \/ mem' = mem
      BY <3>1 DEF Reply
    <3> QED  BY <2>2, <3>2, <3>3, <3>4
  <2> QED  BY <1>4, <2>3, <2>4 DEF Refused
<1>5. CASE Checked /\ tool' \notin Ends
  BY <1>1, <1>5, CheckedFacts, Performed DEF Checked
<1> QED  BY <1>2, <1>3, <1>4, <1>5

(* Every operation of the tool is one of the four.                         *)
LEMMA OperationsImplement ==
  ASSUME IInv,
         \/ mass_erase \/ page_erase \/ set_address \/ SendData \/ SetJump
  PROVE  Abstract
<1> USE DEF Operation, check_status, Sending, Executing, Refused, Checked, Fail, Go
<1>1. CASE mass_erase
  <2> DEFINE c == [op |-> "mass", at |-> 0, n |-> 0]
  <2>1. /\ tool \in Ops
        /\ Sending(c) \/ (Executing /\ UNCHANGED <<tool>>) \/ Refused \/ (Checked /\ tool' \notin Ends)
    BY <1>1 DEF mass_erase, Ops, Ends, AfterMass, AfterPath
  <2> QED  BY <2>1, OperationImplements
<1>2. CASE page_erase
  <2> DEFINE c == [op |-> "erase", at |-> page_addr(Here), n |-> 0]
  <2>1. /\ tool \in Ops
        /\ Sending(c) \/ (Executing /\ UNCHANGED <<tool>>) \/ Refused \/ (Checked /\ tool' \notin Ends)
    BY <1>2 DEF page_erase, Ops, Ends
  <2> QED  BY <2>1, OperationImplements
<1>3. CASE set_address
  <2> DEFINE c == [op |-> "addr", at |-> Here + pos.xfer, n |-> 0]
  <2>1. /\ tool \in Ops
        /\ Sending(c) \/ (Executing /\ UNCHANGED <<tool>>) \/ Refused \/ (Checked /\ tool' \notin Ends)
    BY <1>3 DEF set_address, Ops, Ends
  <2> QED  BY <2>1, OperationImplements
<1>4. CASE SendData
  <2> DEFINE c == [op |-> "data", at |-> Here + pos.xfer, n |-> chunk]
  <2>1. /\ tool \in Ops
        /\ Sending(c) \/ (Executing /\ UNCHANGED <<tool>>) \/ Refused \/ (Checked /\ tool' \notin Ends)
    BY <1>4 DEF SendData, Ops, Ends
  <2> QED  BY <2>1, OperationImplements
<1>5. CASE SetJump
  <2> DEFINE c == [op |-> "addr", at |-> 0, n |-> 0]
  <2>1. /\ tool \in Ops
        /\ Sending(c) \/ (Executing /\ UNCHANGED <<tool>>) \/ Refused \/ (Checked /\ tool' \notin Ends)
    BY <1>5 DEF SetJump, Ops, Ends
  <2> QED  BY <2>1, OperationImplements
<1> QED  BY <1>1, <1>2, <1>3, <1>4, <1>5

(* init may end or cut short what an earlier run began.                    *)
LEMMA InitImplements ==
  ASSUME IInv, InitStatus \/ InitRequest
  PROVE  Abstract
<1>1. tool \notin Ends /\ tool' \notin Ends /\ job' = job
  <2>1. tool = "init" /\ job' = job /\ tool' \in {"init", "mass", "read", "jump", "end"}
    BY DEF InitStatus, InitRequest, Go, AfterInit, AfterMass, AfterPath
  <2> QED  BY <2>1 DEF Ends
<1>2. \/ dev = "dnBUSY" /\ Perform
      \/ dev = "dnBUSY" /\ Tear
      \/ mem' = mem
  BY DEF InitStatus, InitRequest, Reply, abort_request, clr_status
<1> QED  BY <1>1, <1>2, Performed, CutShort, StaysQuiet

(* The end of main finishes the update.                                    *)
LEMMA EndImplements ==
  ASSUME FilesRead, IInv, CommandRun
  PROVE  Abstract
<1>1. tool = "end" /\ tool' \in {"finished", "nothing"} /\ job' = job /\ mem' = mem
  BY DEF CommandRun, device
<1>2. CASE tool' = "finished"
  <2>1. Claimed' = Claimed /\ Image' = Image /\ Due' = Due  BY <1>1, JobKept
  <2>2. \A a \in Due : mem[a] = a  BY <1>1, Written
  <2>3. Update!Finish
    BY <1>1, <1>2, <2>1, <2>2 DEF Ends, Update!Finish, Update!UpdateUnchanged
  <2> QED  BY <2>3 DEF Abstract, Update!FlashNext
<1>3. CASE tool' = "nothing"  BY <1>1, <1>3, StopsShort DEF Ends
<1> QED  BY <1>1, <1>2, <1>3

(* What is between the operations does not touch the flash.                *)
LEMMA BetweenImplements ==
  ASSUME ReadFile \/ write_elements \/ write_memory
  PROVE  Abstract
<1>1. /\ tool \in {"read", "write", "chunk"} /\ job' = job /\ mem' = mem
      /\ tool' \in {"failed", "nothing", "write", "jump", "chunk", "erase", "addr"}
  BY DEF ReadFile, write_elements, write_memory, Fail, Go, device
<1>2. CASE tool' \in {"failed", "nothing"}  BY <1>1, <1>2, StopsShort DEF Ends
<1>3. CASE tool' \notin {"failed", "nothing"}  BY <1>1, <1>3, StaysQuiet DEF Ends
<1> QED  BY <1>2, <1>3

(* Nor does leaving the bootloader, or a transfer that raises.             *)
LEMMA LeavingImplements ==
  ASSUME IInv, exit_dfu \/ Raise
  PROVE  Abstract
<1>1. tool \notin Ends /\ job' = job /\ tool' \in {"failed", "leave", "jump", "end"}
  BY DEF exit_dfu, Raise, Fail, Left, Go, Ends
<1>2. mem' = mem
  <2>1. CASE Raise  BY <2>1 DEF Raise, device
  <2>2. CASE exit_dfu
    <3>1. CASE step = "status"
      <4>1. PICK r : Reply(r)  BY <2>2, <3>1 DEF exit_dfu
      <4>2. dev = "manSYNC"  BY <2>2, <3>1, <4>1 DEF exit_dfu, IInv, InStep, Reply
      <4> QED  BY <4>1, <4>2 DEF Reply
    <3>2. CASE step # "status"  BY <2>2, <3>2 DEF exit_dfu, Download, Stalled
    <3> QED  BY <3>1, <3>2
  <2> QED  BY <2>1, <2>2
<1>3. CASE tool' = "failed"  BY <1>1, <1>2, <1>3, StopsShort
<1>4. CASE tool' # "failed"  BY <1>1, <1>2, <1>4, StaysQuiet DEF Ends
<1> QED  BY <1>3, <1>4

(* The cable and the user: a new run begins, or a command is cut short.    *)
LEMMA CableImplements ==
  ASSUME IInv, Start \/ Unplug \/ Plug
  PROVE  Abstract
<1>1. CASE Start
  <2>1. /\ tool \in Ends /\ tool' = "init" /\ job' = job /\ mem' = mem
    BY <1>1 DEF Start, device
  <2>2. Claimed' = Claimed /\ Image' = Image /\ Due' = Due  BY <2>1, JobKept
  <2>3. Update!Begin  BY <2>1, <2>2 DEF Ends, Update!Begin, Update!UpdateUnchanged
  <2> QED  BY <2>3 DEF Abstract, Update!FlashNext
<1>2. CASE Unplug
  <2>1. tool' = tool /\ job' = job  BY <1>2 DEF Unplug
  <2>2. CASE dev = "dnBUSY" /\ Tear  BY <2>1, <2>2, CutShort
  <2>3. CASE mem' = mem  BY <2>1, <2>3, StaysQuiet
  <2> QED  BY <1>2, <2>2, <2>3 DEF Unplug
<1>3. CASE Plug  BY <1>3, StaysQuiet DEF Plug
<1> QED  BY <1>1, <1>2, <1>3

(* pydfu.py implements FlashUpdate: it erases only pages of the file,      *)
(* programs only erased cells, tears only what it was changing, and is     *)
(* finished only when everything due is in the flash.                      *)
THEOREM UpdateRefinement ==
  ASSUME FilesRead
  PROVE  Spec => ImplementsFlashUpdate
<1>1. Init => Update!FlashInit
  <2> SUFFICES ASSUME Init PROVE Update!FlashInit  OBVIOUS
  <2>1. ASSUME NEW a \in Memory PROVE mem[a] \notin {Erased, Torn, a}
    <3>1. a \in Nat /\ mem[a] = -1  BY PageFacts DEF Init, Old
    <3> QED  BY <3>1 DEF Erased, Torn
  <2>2. tool = "none"  BY DEF Init
  <2> QED  BY <2>1, <2>2 DEF Update!FlashInit, Ends
<1>2. IInv /\ [Next]_vars => [Update!FlashNext]_(Update!flashVars)
  <2> SUFFICES ASSUME IInv, [Next]_vars PROVE Abstract  BY DEF Abstract
  <2>1. CASE UNCHANGED vars  BY <2>1, StaysQuiet DEF vars
  <2>2. CASE Next
    BY <2>2, CableImplements, LeavingImplements, InitImplements, OperationsImplement,
       BetweenImplements, EndImplements DEF Next, Run
  <2> QED  BY <2>1, <2>2
<1> QED  BY <1>1, <1>2, InvariantHolds, PTL DEF Spec, ImplementsFlashUpdate, Update!FlashSpec
=============================================================================
