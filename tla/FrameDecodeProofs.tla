--------------------------- MODULE FrameDecodeProofs ---------------------------
(***************************************************************************)
(* What TLAPS proves of FrameDecode, for every set of threads and frames,  *)
(* every size of images up to the limit of libavif, every size, padding    *)
(* and format of bitmaps, every platform, and every width of UInt.         *)
(***************************************************************************)
EXTENDS FrameDecode, FiniteSetTheorems, TLAPS
-------------------------------------------------------------------------------
Columns == 0 .. image.width - 1

Pixel(f, x, y) == [frame |-> f, x |-> x, y |-> y, premul |-> alphaPremultiplied]

(* In memory m, pixel <<x, y>> of frame f is where the code puts it.       *)
WrittenIn(m, f, x, y) ==
  /\ Address(x, y) \in DOMAIN m
  /\ m[Address(x, y)] = Pixel(f, x, y)

(* In memory m, every pixel is where the code puts it, whoever wrote it.   *)
Placed(m) ==
  \A a \in DOMAIN m :
    /\ m[a].x \in Columns /\ m[a].y \in AllRows
    /\ a = Address(m[a].x, m[a].y)

(* Shows, for a memory m.                                                  *)
ShownIn(m, f) ==
  \A x \in CommonColumns, y \in CommonRows :
    LET a == y * bitmap.rowBytes + x * PixelSize[bitmap.format]
    IN  a \in DOMAIN m /\ m[a].frame = f /\ m[a].x = x /\ m[a].y = y

ShapeInv == image \in Images /\ bitmap \in Bitmaps

(* The memory of the bitmap is what it was, or an array for the image.     *)
SizeInv ==
  \/ length = BitmapSize
  \/ /\ platform = "native" /\ Supported
     /\ length = image.width * rgbPixelSize * image.height

(* A call that converts or copies.                                         *)
Inside(c) == c.pc \in {"convert", "install"}

(* Only supported formats are converted, only Kotlin/Native makes copies,  *)
(* and rows are counted while a call converts in place.                    *)
CallsInside ==
  \A t \in Threads :
    /\ Inside(call[t]) => Supported
    /\ call[t].pc = "install" => platform = "native" /\ ArraySize >= 0
    /\ call[t].pc # "convert" \/ platform = "native" => call[t].row = 0
    /\ call[t].row <= image.height

(* While the last call that was started runs, if it was alone when it      *)
(* started, it is alone; when it has returned, nothing runs.               *)
StillAlone ==
  outcome.alone =>
    /\ \A t, u \in Threads : call[t].pc # "idle" /\ call[u].pc # "idle" => t = u
    /\ outcome.status # "none" => \A t \in Threads : call[t].pc = "idle"

(* Calls that overlap are noted.                                           *)
SharedInv ==
  \A t, u \in Threads : call[t].pc # "idle" /\ call[u].pc # "idle" => t = u \/ shared

(* The rows that a call in place has behind it are in the bitmap, as far   *)
(* as it is wide.                                                          *)
RowsWritten ==
  platform # "native" /\ outcome.alone =>
    \A t \in Threads : call[t].pc = "convert" =>
      \A x \in CommonColumns, y \in 0 .. call[t].row - 1 :
        WrittenIn(pixels, call[t].frame, x, y)

OkSupported == outcome.status = "ok" => Supported

PixelsInside == \A a \in DOMAIN pixels : a + rgbPixelSize <= length

(***************************************************************************)
(* The inductive invariant.                                                *)
(***************************************************************************)
FrameInv ==
  /\ TypeOK /\ ShapeInv /\ SizeInv /\ CallsInside /\ StillAlone /\ SharedInv
  /\ Placed(pixels) /\ RowsWritten /\ OkSupported /\ PixelsInside
  /\ LocksBalanced /\ BuffersAccounted /\ DecodedExact /\ FaultsExplained
-------------------------------------------------------------------------------
(* Addresses.                                                              *)

(* The shapes of an image and of a bitmap.                                 *)
LEMMA Shapes ==
  ASSUME ShapeInv
  PROVE  /\ image \in [width : Sides, height : Sides]
         /\ image.width \in Nat /\ image.width > 0
         /\ image.height \in Nat /\ image.height > 0 /\ image.height <= MaxSide
         /\ image.width * image.height <= UIntValues \div 16
         /\ bitmap \in [width : Nat, height : Nat, format : Formats, rowBytes : Nat]
         /\ PixelSize[bitmap.format] \in {1, 2, 4, 8}
         /\ bitmap.width > 0 /\ bitmap.height > 0
         /\ bitmap.width * PixelSize[bitmap.format] \in Nat
         /\ bitmap.rowBytes >= bitmap.width * PixelSize[bitmap.format]
<1>1. /\ image \in [width : Sides, height : Sides]
      /\ image.width * image.height <= UIntValues \div 16
  BY DEF ShapeInv, Images
<1>2. /\ image.width \in Nat /\ image.width > 0
      /\ image.height \in Nat /\ image.height > 0 /\ image.height <= MaxSide
  BY <1>1, FrameDecodeAssumption DEF Sides
<1>3. PICK w \in Sides, h \in Sides, f \in Formats, p \in Paddings :
        bitmap = [width |-> w, height |-> h, format |-> f, rowBytes |-> (w + p) * PixelSize[f]]
  BY DEF ShapeInv, Bitmaps
<1>4. PixelSize[f] \in {1, 2, 4, 8}
  BY DEF Formats, PixelSize
<1>5. /\ bitmap.width = w /\ bitmap.height = h /\ bitmap.format = f
      /\ bitmap.rowBytes = (w + p) * PixelSize[f]
  BY <1>3
<1>6. p \in Nat /\ w \in Nat /\ w > 0 /\ h \in Nat /\ h > 0
  BY FrameDecodeAssumption DEF Sides
<1>7. /\ w * PixelSize[f] \in Nat /\ (w + p) * PixelSize[f] \in Nat
      /\ (w + p) * PixelSize[f] >= w * PixelSize[f]
  BY <1>4, <1>6
<1> QED
  BY <1>1, <1>2, <1>3, <1>4, <1>5, <1>6, <1>7

(* The rows that avifImageYUVToRGB writes.                                 *)
LEMMA Rows ==
  ASSUME ShapeInv, Supported
  PROVE  /\ rgbPixelSize = PixelSize[bitmap.format] /\ rgbPixelSize \in {2, 4, 8}
         /\ rgbRowBytes \in Nat
         /\ platform = "android" => rgbRowBytes = bitmap.rowBytes
         /\ platform # "android" => rgbRowBytes = image.width * rgbPixelSize
<1>1. rgbPixelSize = PixelSize[bitmap.format] /\ rgbPixelSize \in {2, 4, 8}
  BY DEF Supported, rgbPixelSize, PixelSize
<1>2. image.width * rgbPixelSize \in Nat /\ bitmap.rowBytes \in Nat
  BY <1>1, Shapes
<1> QED
  BY <1>1, <1>2 DEF rgbRowBytes

(* y * r grows with y by r at least.                                       *)
LEMMA Product ==
  ASSUME NEW r \in Nat, NEW y \in Nat, NEW z \in Nat
  PROVE  /\ y * r \in Nat
         /\ y < z => y * r + r <= z * r
         /\ y <= z => y * r <= z * r
  OBVIOUS

(* The address of a pixel.                                                 *)
LEMMA AddressType ==
  ASSUME ShapeInv, Supported, NEW x \in Nat, NEW y \in Nat
  PROVE  /\ Address(x, y) = y * rgbRowBytes + x * rgbPixelSize
         /\ Address(x, y) \in Nat /\ y * rgbRowBytes \in Nat /\ x * rgbPixelSize \in Nat
<1>1. rgbRowBytes \in Nat /\ rgbPixelSize \in {2, 4, 8}
  BY Rows
<1>2. y * rgbRowBytes \in Nat
  BY <1>1, Product
<1>3. x * rgbPixelSize \in Nat
  BY <1>1
<1> QED
  BY <1>2, <1>3 DEF Address

(* No two pixels of a row have the same address, nor two pixels of an      *)
(* image whose rows follow each other.                                     *)
LEMMA AddressUnique ==
  ASSUME ShapeInv, Supported,
         NEW x \in Columns, NEW y \in Nat, NEW x2 \in Columns, NEW y2 \in Nat,
         y = y2 \/ platform # "android", Address(x, y) = Address(x2, y2)
  PROVE  x = x2 /\ y = y2
<1> DEFINE r == rgbRowBytes
           s == rgbPixelSize
<1>1. r \in Nat /\ s \in {2, 4, 8} /\ image.width \in Nat /\ x \in Nat /\ x2 \in Nat
  BY Rows, Shapes DEF Columns
<1>2. y * r + x * s = y2 * r + x2 * s
  BY <1>1, AddressType
<1>3. /\ x * s \in Nat /\ x * s + s <= image.width * s
      /\ x2 * s \in Nat /\ x2 * s + s <= image.width * s
  BY <1>1 DEF Columns
<1>4. x * s = x2 * s => x = x2
  BY <1>1
<1>5. y = y2 \/ r = image.width * s
  BY Rows
<1> HIDE DEF r, s
<1>6. /\ y * r \in Nat /\ y2 * r \in Nat
      /\ y < y2 => y * r + r <= y2 * r
      /\ y2 < y => y2 * r + r <= y * r
  BY <1>1, Product
<1>7. y = y2
  BY <1>1, <1>2, <1>3, <1>5, <1>6
<1>8. x * s = x2 * s
  BY <1>2, <1>3, <1>6, <1>7
<1> QED
  BY <1>4, <1>7, <1>8

(* A row that follows does not touch the columns that the bitmap has.      *)
LEMMA AddressBelow ==
  ASSUME ShapeInv, Supported,
         NEW x \in CommonColumns, NEW y \in Nat, NEW x2 \in Nat, NEW y2 \in Nat, y < y2
  PROVE  Address(x, y) < Address(x2, y2)
<1> DEFINE r == rgbRowBytes
           s == rgbPixelSize
<1>1. /\ r \in Nat /\ s \in {2, 4, 8} /\ s = PixelSize[bitmap.format]
      /\ x \in Nat /\ x < image.width /\ x < bitmap.width
      /\ image.width \in Nat /\ bitmap.width \in Nat
  BY Rows, Shapes DEF CommonColumns
<1>2. /\ x * s \in Nat /\ x * s + s <= image.width * s /\ x * s + s <= bitmap.width * s
      /\ x2 * s \in Nat /\ bitmap.width * s \in Nat
  BY <1>1
<1>3. bitmap.rowBytes \in Nat /\ bitmap.width * s <= bitmap.rowBytes
  BY <1>1, Shapes
<1>4. r = bitmap.rowBytes \/ r = image.width * s
  BY Rows
<1> HIDE DEF r, s
<1>5. x * s + s <= r
  BY <1>1, <1>2, <1>3, <1>4
<1>6. y * r \in Nat /\ y2 * r \in Nat /\ y * r + r <= y2 * r
  BY <1>1, Product
<1> DEFINE d == y * r
           e == y2 * r
           k == x * s
           l == x2 * s
<1>7. d + k < e + l
  <2>1. d \in Nat /\ e \in Nat /\ d + r <= e /\ k \in Nat /\ l \in Nat /\ k + s <= r /\ s > 0
    BY <1>1, <1>2, <1>5, <1>6
  <2> HIDE DEF d, e, k, l
  <2> QED
    BY <1>1, <2>1
<1> QED
  BY <1>1, <1>7, AddressType DEF r, s

(* A bitmap as large as the image holds every row of it.                   *)
LEMMA AddressInside ==
  ASSUME ShapeInv, Supported, Covers, NEW y \in AllRows
  PROVE  Address(image.width - 1, y) + rgbPixelSize <= BitmapSize
<1> DEFINE r == rgbRowBytes
           s == rgbPixelSize
           b == bitmap.rowBytes
           w == image.width
           v == bitmap.width
           h == bitmap.height
<1>1. /\ r \in Nat /\ b \in Nat /\ s \in {2, 4, 8} /\ s = PixelSize[bitmap.format]
      /\ w \in Nat /\ w > 0 /\ v \in Nat /\ w <= v
      /\ h \in Nat /\ h > 0 /\ y \in Nat /\ y <= h - 1 /\ v * s <= b
  BY Rows, Shapes DEF AllRows, Covers
<1>2. /\ w * s \in Nat /\ v * s \in Nat /\ w * s <= v * s
      /\ (w - 1) * s \in Nat /\ (w - 1) * s + s = w * s
  BY <1>1
<1>3. r = b \/ r = w * s
  BY Rows
<1>4. Address(w - 1, y) = y * r + (w - 1) * s
  <2>1. w - 1 \in Nat
    BY <1>1
  <2> QED
    BY <1>1, <2>1, AddressType
<1>5. BitmapSize = (h - 1) * b + v * s
  BY <1>1 DEF BitmapSize
<1> HIDE DEF r, s, b, w, v, h
<1>6. r <= b
  BY <1>1, <1>2, <1>3
<1>7. y * r \in Nat /\ y * b \in Nat /\ y * r <= y * b
  BY <1>1, <1>6
<1>8. h - 1 \in Nat /\ (h - 1) * b \in Nat /\ y * b <= (h - 1) * b
  <2>1. h - 1 \in Nat
    BY <1>1
  <2> QED
    BY <1>1, <2>1, Product
<1> DEFINE d == y * r
           e == (h - 1) * b
           k == (w - 1) * s
           l == v * s
<1>9. d + k + s <= e + l
  <2>1. d \in Nat /\ e \in Nat /\ d <= e /\ k \in Nat /\ l \in Nat /\ k + s <= l
    BY <1>1, <1>2, <1>7, <1>8
  <2> HIDE DEF d, e, k, l
  <2> QED
    BY <1>1, <2>1
<1> QED
  BY <1>4, <1>5, <1>9 DEF s, w

(* The last pixel of a row ends where the row ends.                        *)
LEMMA RowInside ==
  ASSUME ShapeInv, Supported, NEW x \in Columns, NEW y \in Nat
  PROVE  Address(x, y) <= Address(image.width - 1, y)
<1> DEFINE s == rgbPixelSize
           w == image.width
<1>1. s \in {2, 4, 8} /\ w \in Nat /\ x \in Nat /\ x <= w - 1 /\ w - 1 \in Nat
  BY Rows, Shapes DEF Columns
<1>2. x * s <= (w - 1) * s
  BY <1>1
<1>3. /\ Address(x, y) = y * rgbRowBytes + x * s /\ y * rgbRowBytes \in Nat /\ x * s \in Nat
      /\ Address(w - 1, y) = y * rgbRowBytes + (w - 1) * s /\ (w - 1) * s \in Nat
  BY <1>1, AddressType
<1> QED
  BY <1>2, <1>3 DEF w

(* The array of Kotlin/Native holds every pixel of the image.              *)
LEMMA ArrayInside ==
  ASSUME ShapeInv, Supported, platform = "native", NEW x \in Columns, NEW y \in AllRows
  PROVE  Address(x, y) + rgbPixelSize <= image.width * rgbPixelSize * image.height
<1> DEFINE r == image.width * rgbPixelSize
           s == rgbPixelSize
           h == image.height
<1>1. /\ r \in Nat /\ s \in {2, 4, 8} /\ h \in Nat /\ r = rgbRowBytes
      /\ image.width \in Nat /\ x \in Nat /\ x < image.width /\ y \in Nat /\ y < h
  BY Rows, Shapes DEF AllRows, Columns
<1>2. x * s \in Nat /\ x * s + s <= r
  BY <1>1
<1>3. Address(x, y) = y * r + x * s
  BY <1>1, AddressType
<1> HIDE DEF r, s, h
<1>4. y * r \in Nat /\ h * r \in Nat /\ y * r + r <= h * r
  BY <1>1, Product
<1>5. h * r = r * h
  BY <1>1
<1>6. y * r + x * s + s <= r * h
  BY <1>1, <1>2, <1>4, <1>5
<1> QED
  BY <1>3, <1>6 DEF r, s, h

(* UInt.toInt() is exact, or negative, for the size of every image.        *)
LEMMA ArraySizeExact ==
  ASSUME ShapeInv, Supported, platform = "native", ArraySize >= 0
  PROVE  /\ ArraySize = image.width * rgbPixelSize * image.height
         /\ ArraySize \in Nat
<1> DEFINE n == rgbRowBytes * image.height
           w == image.width
           h == image.height
           s == rgbPixelSize
           L == UIntValues \div 16
<1>1. n = (w * s) * h
  BY Rows
<1>2. s \in {2, 4, 8} /\ w \in Nat /\ h \in Nat /\ w * h <= L /\ w * h \in Nat
  BY Rows, Shapes
<1>3. UIntValues \in Nat /\ UIntValues > 0 /\ L \in Nat /\ UIntValues = 16 * L
      /\ UIntValues \div 2 = 8 * L
  <2>1. UIntValues \in Nat /\ UIntValues > 0 /\ UIntValues % 16 = 0
    BY FrameDecodeAssumption
  <2> QED
    BY <2>1
<1>4. ArraySize = ToInt(n)
  BY DEF ArraySize
<1> HIDE DEF w, h, s, L
<1>5. (w * s) * h = s * (w * h)
  BY <1>2
<1>6. s * (w * h) \in Nat /\ s * (w * h) <= 8 * L
  BY <1>2, <1>3
<1>7. n \in Nat /\ n <= 8 * L
  BY <1>1, <1>5, <1>6
<1> HIDE DEF n
<1>8. n < UIntValues
  BY <1>3, <1>7
<1>9. n % UIntValues = n
  BY <1>3, <1>7, <1>8
<1>10. ArraySize = IF n >= 8 * L THEN n - UIntValues ELSE n
  BY <1>3, <1>4, <1>9 DEF ToInt
<1>11. ArraySize = n
  BY <1>3, <1>7, <1>10
<1> QED
  BY <1>1, <1>7, <1>11 DEF w, h, s

(* An array for the image has all the pixels of the bitmap, unless the     *)
(* bitmap has more or longer rows.                                         *)
LEMMA ArrayHolds ==
  ASSUME ShapeInv, Supported,
         bitmap.height <= image.height,
         bitmap.rowBytes <= image.width * PixelSize[bitmap.format]
  PROVE  BitmapSize <= image.width * rgbPixelSize * image.height
<1> DEFINE r == image.width * rgbPixelSize
           b == bitmap.rowBytes
           v == bitmap.width * PixelSize[bitmap.format]
           g == bitmap.height
           h == image.height
<1>1. /\ r \in Nat /\ b \in Nat /\ v \in Nat /\ g \in Nat /\ g > 0 /\ h \in Nat
      /\ b <= r /\ v <= b /\ g <= h
  BY Rows, Shapes
<1>2. BitmapSize = (g - 1) * b + v
  BY DEF BitmapSize
<1> HIDE DEF r, b, v, g, h
<1>3. (g - 1) * b \in Nat /\ (g - 1) * b + b <= g * b
  <2>1. g - 1 \in Nat /\ g - 1 < g
    BY <1>1
  <2> QED
    BY <1>1, <2>1, Product
<1>4. g * b \in Nat /\ h * b \in Nat /\ g * b <= h * b
  BY <1>1, Product
<1>5. h * b <= r * h
  BY <1>1
<1>6. r * h \in Nat
  BY <1>1, Product
<1> QED
  BY <1>1, <1>2, <1>3, <1>4, <1>5, <1>6 DEF r, h

(* What the memory may be is enough for MemoryHolds.                       *)
LEMMA SizeHolds ==
  ASSUME ShapeInv, SizeInv, PixelsInside
  PROVE  MemoryHolds
<1>1. CASE length = BitmapSize
  <2>1. BitmapSize <= length
    <3>1. /\ bitmap.height - 1 \in Nat /\ bitmap.rowBytes \in Nat
          /\ bitmap.width * PixelSize[bitmap.format] \in Nat
      BY Shapes
    <3>2. (bitmap.height - 1) * bitmap.rowBytes \in Nat
      BY <3>1, Product
    <3> QED
      BY <1>1, <3>1, <3>2 DEF BitmapSize
  <2> QED
    BY <2>1 DEF MemoryHolds, PixelsInside
<1>2. CASE /\ platform = "native" /\ Supported
           /\ length = image.width * rgbPixelSize * image.height
  <2>1. /\ image.height \in Nat /\ bitmap.height \in Nat /\ bitmap.rowBytes \in Nat
        /\ image.width * PixelSize[bitmap.format] \in Nat
    BY Shapes
  <2>2. \/ bitmap.height > image.height
        \/ bitmap.rowBytes > image.width * PixelSize[bitmap.format]
        \/ BitmapSize <= length
    BY <1>2, <2>1, ArrayHolds
  <2> QED
    BY <1>2, <2>2 DEF MemoryHolds, PixelsInside
<1> QED
  BY <1>1, <1>2 DEF SizeInv

(* The pixels that avifImageYUVToRGB writes, by their coordinates.         *)
LEMMA ConvertedPixels ==
  ASSUME ShapeInv, Supported, NEW f, NEW rows \in SUBSET AllRows,
         platform # "android" \/ \A y, z \in rows : y = z
  PROVE  /\ \A a \in DOMAIN Converted(f, rows) :
              \E x \in Columns, y \in rows :
                a = Address(x, y) /\ Converted(f, rows)[a] = Pixel(f, x, y)
         /\ \A x \in Columns, y \in rows : WrittenIn(Converted(f, rows), f, x, y)
<1> DEFINE at == (0 .. image.width - 1) \X rows
           of(a) == CHOOSE q \in at : Address(q[1], q[2]) = a
           D == {Address(p[1], p[2]) : p \in at}
<1>1. Converted(f, rows) = [a \in D |-> Pixel(f, of(a)[1], of(a)[2])]
  BY DEF Converted, Pixel
<1>2. \A y \in rows : y \in Nat
  BY Shapes DEF AllRows
<1>3. ASSUME NEW x \in Columns, NEW y \in rows
      PROVE  /\ Address(x, y) \in D
             /\ of(Address(x, y))[1] = x /\ of(Address(x, y))[2] = y
  <2>1. <<x, y>> \in at /\ <<x, y>>[1] = x /\ <<x, y>>[2] = y
    BY DEF Columns
  <2>2. Address(x, y) \in D
    BY <2>1
  <2>3. /\ of(Address(x, y)) \in at
        /\ Address(of(Address(x, y))[1], of(Address(x, y))[2]) = Address(x, y)
    BY <2>1
  <2>4. of(Address(x, y))[1] \in Columns /\ of(Address(x, y))[2] \in rows
    BY <2>3 DEF Columns
  <2> HIDE DEF of, at, D
  <2> QED
    BY <1>2, <2>2, <2>3, <2>4, AddressUnique
<1>4. \A a \in D : \E x \in Columns, y \in rows : a = Address(x, y)
  BY DEF Columns
<1> HIDE DEF of, D
<1>5. ASSUME NEW x \in Columns, NEW y \in rows
      PROVE  WrittenIn(Converted(f, rows), f, x, y)
  BY <1>1, <1>3 DEF WrittenIn
<1>6. ASSUME NEW a \in DOMAIN Converted(f, rows)
      PROVE  \E x \in Columns, y \in rows :
               a = Address(x, y) /\ Converted(f, rows)[a] = Pixel(f, x, y)
  <2>1. PICK x \in Columns, y \in rows : a = Address(x, y)
    BY <1>1, <1>4, <1>6
  <2>2. Converted(f, rows)[a] = Pixel(f, x, y)
    BY <1>5, <2>1 DEF WrittenIn
  <2> QED
    BY <2>1, <2>2
<1> QED
  BY <1>5, <1>6

(* A frame that is written is shown, if the rows match, and otherwise its  *)
(* second row is not.                                                      *)
LEMMA WrittenShown ==
  ASSUME ShapeInv, Supported, NEW m, NEW f, Placed(m),
         \A x \in CommonColumns, y \in CommonRows : WrittenIn(m, f, x, y)
  PROVE  ShownIn(m, f) <=> RowsMatch
<1> DEFINE s == PixelSize[bitmap.format]
<1>1. /\ rgbPixelSize = s /\ rgbRowBytes \in Nat /\ bitmap.rowBytes \in Nat
      /\ s \in {1, 2, 4, 8} /\ image.width \in Nat /\ image.height \in Nat
      /\ image.width > 0 /\ image.height > 0
      /\ bitmap.width \in Nat /\ bitmap.height \in Nat /\ bitmap.width > 0 /\ bitmap.height > 0
  BY Rows, Shapes
<1> HIDE DEF s
<1>2. ASSUME RowsMatch PROVE ShownIn(m, f)
  <2>1. SUFFICES ASSUME NEW x \in CommonColumns, NEW y \in CommonRows
                 PROVE  LET a == y * bitmap.rowBytes + x * s
                        IN  a \in DOMAIN m /\ m[a].frame = f /\ m[a].x = x /\ m[a].y = y
    BY DEF ShownIn, s
  <2>2. x \in Nat /\ y \in Nat
    BY <1>1 DEF CommonColumns, CommonRows, AllRows
  <2>3. y * rgbRowBytes = y * bitmap.rowBytes
    <3>1. CASE y = 0
      BY <1>1, <3>1
    <3>2. CASE y # 0
      BY <1>1, <1>2, <3>2, Rows DEF RowsMatch, s
    <3> QED
      BY <3>1, <3>2
  <2>4. Address(x, y) = y * bitmap.rowBytes + x * s
    BY <1>1, <2>2, <2>3, AddressType
  <2>5. Pixel(f, x, y).frame = f /\ Pixel(f, x, y).x = x /\ Pixel(f, x, y).y = y
    BY DEF Pixel
  <2> QED
    BY <2>4, <2>5 DEF WrittenIn
<1>3. ASSUME ~RowsMatch, ShownIn(m, f) PROVE FALSE
  <2>1. /\ platform # "android" /\ bitmap.rowBytes # image.width * s /\ CommonRows # {0}
    BY <1>3 DEF RowsMatch, s
  <2>2. 1 \in CommonRows
    BY <1>1, <2>1 DEF CommonRows, AllRows
  <2>3. 0 \in CommonColumns
    BY <1>1 DEF CommonColumns
  <2>4. 1 * bitmap.rowBytes + 0 * s = bitmap.rowBytes
    BY <1>1
  <2>5. bitmap.rowBytes \in DOMAIN m /\ m[bitmap.rowBytes].x = 0 /\ m[bitmap.rowBytes].y = 1
    BY <1>3, <2>2, <2>3, <2>4 DEF ShownIn, s
  <2>6. bitmap.rowBytes = Address(0, 1)
    BY <2>5 DEF Placed
  <2>7. Address(0, 1) = 1 * rgbRowBytes + 0 * rgbPixelSize
    BY AddressType
  <2>8. 1 * rgbRowBytes + 0 * rgbPixelSize = rgbRowBytes
    BY <1>1
  <2>9. rgbRowBytes = image.width * s
    BY <1>1, <2>1, Rows
  <2> QED
    BY <2>1, <2>6, <2>7, <2>8, <2>9
<1> QED
  BY <1>2, <1>3
-------------------------------------------------------------------------------
(* Locks and buffers.                                                      *)
Converting == {t \in Threads : Inside(call[t])}

OnlyNativeInstalls == \A t \in Threads : call[t].pc = "install" => platform = "native"

Calls ==
  [pc : {"idle", "start", "convert", "install"}, frame : Frames, row : 0 .. MaxSide]

Outcomes == [status : {"none", "ok", "failed"}, frame : Frames, alone : BOOLEAN]

(* A thread in no call.                                                    *)
LEMMA IdleType == Idle \in Calls /\ Idle.pc = "idle" /\ Idle.row = 0
<1>1. (CHOOSE f \in Frames : TRUE) \in Frames
  BY FrameDecodeAssumption
<1> QED
  BY <1>1, FrameDecodeAssumption DEF Idle, Calls

(* Threads that convert are counted one by one.                            *)
LEMMA Count ==
  ASSUME NEW t \in Threads, \A u \in Threads \ {t} : call'[u] = call[u]
  PROVE  /\ Cardinality(Converting) \in Nat
         /\ Inside(call[t]) => Cardinality(Converting) > 0
         /\ Inside(call[t]) /\ ~Inside(call'[t]) =>
              Cardinality(Converting') = Cardinality(Converting) - 1
         /\ ~Inside(call[t]) /\ Inside(call'[t]) =>
              Cardinality(Converting') = Cardinality(Converting) + 1
         /\ (Inside(call[t]) <=> Inside(call'[t])) => Converting' = Converting
<1>1. IsFiniteSet(Converting) /\ Cardinality(Converting) \in Nat
  BY FrameDecodeAssumption, FS_Subset, FS_CardinalityType DEF Converting
<1>2. Inside(call[t]) => t \in Converting /\ Converting # {}
  BY DEF Converting
<1>3. Inside(call[t]) => Cardinality(Converting) > 0
  BY <1>1, <1>2, FS_EmptySet
<1>4. Inside(call[t]) /\ ~Inside(call'[t]) => Converting' = Converting \ {t}
  BY DEF Converting
<1>5. ~Inside(call[t]) /\ Inside(call'[t]) =>
        Converting' = Converting \cup {t} /\ t \notin Converting
  BY DEF Converting
<1>6. (Inside(call[t]) <=> Inside(call'[t])) => Converting' = Converting
  BY DEF Converting
<1>7. Cardinality(Converting \ {t}) = IF t \in Converting THEN Cardinality(Converting) - 1
                                                          ELSE Cardinality(Converting)
  BY <1>1, FS_RemoveElement
<1>8. Cardinality(Converting \cup {t}) = IF t \in Converting THEN Cardinality(Converting)
                                                            ELSE Cardinality(Converting) + 1
  BY <1>1, FS_AddElement
<1> QED
  BY <1>1, <1>2, <1>3, <1>4, <1>5, <1>6, <1>7, <1>8

(* The locks in terms of the threads that convert.                         *)
LEMMA LocksCount ==
  ASSUME OnlyNativeInstalls
  PROVE  LocksBalanced <=> (platform = "android" => locks = Cardinality(Converting))
<1>1. platform = "android" => {t \in Threads : call[t].pc = "convert"} = Converting
  BY DEF OnlyNativeInstalls, Converting, Inside
<1> QED
  BY <1>1 DEF LocksBalanced

(* The buffers in terms of the threads that convert.                       *)
LEMMA BuffersCount ==
  BuffersAccounted <=> buffers = lost + IF platform = "native" THEN Cardinality(Converting) ELSE 0
<1> DEFINE N == {t \in Threads : platform = "native" /\ call[t].pc \in {"convert", "install"}}
<1>1. platform # "native" => N = {}
  OBVIOUS
<1>2. platform = "native" => N = Converting
  BY DEF Converting, Inside
<1>3. BuffersAccounted <=> buffers = lost + Cardinality(N)
  BY DEF BuffersAccounted
<1> HIDE DEF N
<1> QED
  BY <1>1, <1>2, <1>3, FS_EmptySet

(* Who converts, locks and allocates: what each step does to the counts.   *)
Counted(t) ==
  /\ \A u \in Threads \ {t} : call'[u] = call[u]
  /\ UNCHANGED platform
  /\ \/ /\ ~Inside(call[t]) /\ Inside(call'[t])
        /\ locks' = IF platform = "android" THEN locks + 1 ELSE locks
        /\ buffers' = IF platform = "native" THEN buffers + 1 ELSE buffers
        /\ UNCHANGED lost
     \/ /\ Inside(call[t]) /\ ~Inside(call'[t])
        /\ locks' = IF platform = "android" THEN locks - 1 ELSE locks
        /\ \/ platform # "native" /\ UNCHANGED <<buffers, lost>>
           \/ platform = "native" /\ buffers' = buffers - 1 /\ lost' = lost
           \/ platform = "native" /\ buffers' = buffers /\ lost' = lost + 1
     \/ /\ Inside(call[t]) <=> Inside(call'[t])
        /\ UNCHANGED <<locks, buffers, lost>>

(* Such a step keeps the balances.                                         *)
LEMMA CountedKeeps ==
  ASSUME TypeOK, OnlyNativeInstalls, OnlyNativeInstalls', LocksBalanced, BuffersAccounted,
         NEW t \in Threads, Counted(t)
  PROVE  /\ LocksBalanced' /\ BuffersAccounted'
         /\ locks' \in Nat /\ buffers' \in Nat /\ lost' \in Nat
<1> DEFINE n == Cardinality(Converting)
           m == Cardinality(Converting')
           k == IF platform = "native" THEN n ELSE 0
           l == IF platform = "native" THEN m ELSE 0
<1>1. /\ n \in Nat
      /\ Inside(call[t]) => n > 0
      /\ Inside(call[t]) /\ ~Inside(call'[t]) => m = n - 1
      /\ ~Inside(call[t]) /\ Inside(call'[t]) => m = n + 1
      /\ (Inside(call[t]) <=> Inside(call'[t])) => m = n
  BY Count DEF Counted
<1>2. /\ platform = "android" => locks = n
      /\ buffers = lost + k
  BY LocksCount, BuffersCount
<1>3. locks \in Nat /\ buffers \in Nat /\ lost \in Nat
  BY DEF TypeOK
<1>4. m \in Nat /\ l \in Nat
  BY <1>1
<1>5. LocksBalanced' <=> (platform' = "android" => locks' = m)
  <2>1. platform' = "android" => {u \in Threads : call'[u].pc = "convert"} = Converting'
    BY DEF OnlyNativeInstalls, Converting, Inside
  <2> QED
    BY <2>1 DEF LocksBalanced
<1>6. BuffersAccounted' <=> buffers' = lost' + l
  <2> DEFINE N == {u \in Threads : platform' = "native" /\ call'[u].pc \in {"convert", "install"}}
  <2>1. platform' # "native" => N = {}
    OBVIOUS
  <2>2. platform' = "native" => N = Converting'
    BY DEF Converting, Inside
  <2>3. BuffersAccounted' <=> buffers' = lost' + Cardinality(N)
    BY DEF BuffersAccounted
  <2> HIDE DEF N
  <2> QED
    BY <2>1, <2>2, <2>3, FS_EmptySet DEF Counted
<1> HIDE DEF n, m
<1>7. /\ platform = "android" => locks' = m
      /\ platform # "android" => locks' = locks
  BY <1>1, <1>2, <1>3 DEF Counted
<1>8. buffers' = lost' + l /\ lost' \in Nat /\ buffers' \in Nat
  <2>1. CASE platform = "native"
    BY <1>1, <1>2, <1>3, <1>4, <2>1 DEF Counted
  <2>2. CASE platform # "native"
    BY <1>2, <1>3, <2>2 DEF Counted
  <2> QED
    BY <2>1, <2>2
<1>9. locks' \in Nat
  BY <1>3, <1>4, <1>7
<1> QED
  BY <1>5, <1>6, <1>7, <1>8, <1>9 DEF Counted
-------------------------------------------------------------------------------
(* What a step does to the call and to the memory: it starts a call, gets  *)
(* the pixels, makes the array, fails, returns from a conversion in place, *)
(* converts a row or installs a copy.                                      *)
Enters(t) ==
  /\ At(t, "start") /\ Supported
  /\ Goto(t, "convert")
  /\ UNCHANGED <<shapes, memory>>

Fails(t) ==
  /\ call[t].pc # "idle"
  /\ Return(t, "failed")
  /\ UNCHANGED <<shapes, memory>>

Succeeds(t) ==
  /\ At(t, "convert") /\ platform # "native" /\ call[t].row = image.height
  /\ Return(t, "ok")
  /\ UNCHANGED <<shapes, memory>>

Does(t) ==
  \/ \E f \in Frames : decodeFrame(t, f)
  \/ Enters(t) \/ makeArray(t) \/ Fails(t) \/ Succeeds(t) \/ convertRow(t) \/ installPixels(t)

(* Every step is one of these.                                             *)
LEMMA StepDoes ==
  ASSUME NEW t \in Threads, Step(t)
  PROVE  Does(t)
<1>1. CASE rejected(t) \/ noPixels(t)
  BY <1>1 DEF rejected, noPixels, At, Does, Fails
<1>2. CASE lockPixels(t) \/ getPixels(t) \/ allocatePixels(t)
  BY <1>2 DEF lockPixels, getPixels, allocatePixels, Does, Enters
<1>3. ASSUME NEW ok \in BOOLEAN, returnJvm(t, ok) \/ unlockPixels(t, ok)
      PROVE  Does(t)
  <2>1. /\ Converts(t, ok) /\ platform # "native" /\ UNCHANGED <<shapes, memory>>
    BY <1>3 DEF returnJvm, unlockPixels
  <2>2. CASE ok
    BY <2>1, <2>2 DEF Converts, Does, Succeeds
  <2>3. CASE ~ok
    BY <2>1, <2>3 DEF Converts, At, Does, Fails
  <2> QED
    BY <2>2, <2>3
<1>4. CASE convertFails(t) \/ copyFails(t)
  BY <1>4 DEF convertFails, copyFails, Converts, At, Does, Fails
<1> QED
  BY <1>1, <1>2, <1>3, <1>4 DEF Step, Does

(* The calls after a step.                                                 *)
LEMMA StepCalls ==
  ASSUME TypeOK, NEW t \in Threads, Does(t)
  PROVE  /\ UNCHANGED shapes
         /\ \A u \in Threads \ {t} : call'[u] = call[u]
         /\ DOMAIN call' = Threads
         /\ \E c : call' = [call EXCEPT ![t] = c] /\ call'[t] = c
<1>1. DOMAIN call = Threads /\ call \in [Threads -> Calls]
  BY DEF TypeOK, Calls
<1>2. \E c : call' = [call EXCEPT ![t] = c] /\ call'[t] = c
  BY <1>1 DEF Does, decodeFrame, Enters, makeArray, Fails, Succeeds, convertRow, installPixels,
              Goto, Return
<1>3. UNCHANGED shapes
  BY DEF Does, decodeFrame, Enters, makeArray, Fails, Succeeds, convertRow, installPixels
<1> QED
  BY <1>1, <1>2, <1>3

(* Every step counts locks and buffers.                                    *)
LEMMA StepCounted ==
  ASSUME TypeOK, NEW t \in Threads, Step(t)
  PROVE  Counted(t)
<1>1. /\ UNCHANGED platform
      /\ \A u \in Threads \ {t} : call'[u] = call[u]
  BY StepDoes, StepCalls DEF shapes
<1>2. call \in [Threads -> Calls]
  BY DEF TypeOK, Calls
<1>3. ASSUME Inside(call[t]) <=> Inside(call'[t]), UNCHANGED <<locks, buffers, lost>>
      PROVE  Counted(t)
  BY <1>1, <1>3 DEF Counted
<1>4. CASE \E f \in Frames : decodeFrame(t, f)
  <2>1. PICK f \in Frames : decodeFrame(t, f)
    BY <1>4
  <2>2. call'[t].pc = "start" /\ call[t].pc = "idle"
    BY <1>2, <2>1 DEF decodeFrame
  <2> QED
    BY <1>3, <2>1, <2>2 DEF decodeFrame, Inside
<1>5. CASE rejected(t) \/ noPixels(t)
  <2>1. call'[t].pc = "idle" /\ call[t].pc = "start"
    BY <1>2, <1>5, IdleType DEF rejected, noPixels, At, Return
  <2> QED
    BY <1>3, <1>5, <2>1 DEF rejected, noPixels, Inside
<1>6. CASE lockPixels(t) \/ getPixels(t) \/ allocatePixels(t)
  <2>1. call'[t].pc = "convert" /\ call[t].pc = "start"
    BY <1>2, <1>6 DEF lockPixels, getPixels, allocatePixels, At, Goto, Calls
  <2>2. Inside(call'[t]) /\ ~Inside(call[t])
    BY <2>1 DEF Inside
  <2> QED
    BY <1>1, <1>6, <2>2 DEF lockPixels, getPixels, allocatePixels, Counted
<1>7. CASE convertRow(t) \/ makeArray(t)
  <2>1. call'[t].pc \in {"convert", "install"} /\ call[t].pc = "convert"
    BY <1>2, <1>7 DEF convertRow, makeArray, Goto, At, Calls
  <2>2. Inside(call[t]) /\ Inside(call'[t])
    BY <2>1 DEF Inside
  <2> QED
    BY <1>3, <1>7, <2>2 DEF convertRow, makeArray
<1>8. ASSUME NEW status, Return(t, status), call[t].pc \in {"convert", "install"}
      PROVE  Inside(call[t]) /\ ~Inside(call'[t])
  BY <1>2, <1>8, IdleType DEF Return, Inside
<1>9. ASSUME NEW ok \in BOOLEAN, returnJvm(t, ok) \/ unlockPixels(t, ok)
      PROVE  Counted(t)
  <2>1. Inside(call[t]) /\ ~Inside(call'[t])
    BY <1>8, <1>9 DEF returnJvm, unlockPixels, Converts, At
  <2> QED
    BY <1>1, <1>9, <2>1 DEF returnJvm, unlockPixels, Counted
<1>10. CASE convertFails(t) \/ installPixels(t) \/ copyFails(t)
  <2>1. Inside(call[t]) /\ ~Inside(call'[t])
    BY <1>8, <1>10 DEF convertFails, installPixels, copyFails, Converts, At
  <2> QED
    BY <1>1, <1>10, <2>1 DEF convertFails, installPixels, copyFails, Counted
<1> QED
  BY <1>4, <1>5, <1>6, <1>7, <1>9, <1>10 DEF Step
-------------------------------------------------------------------------------
(* Memory.                                                                 *)

(* The geometry is that of the shapes.                                     *)
LEMMA SameShape ==
  ASSUME UNCHANGED shapes
  PROVE  /\ rgbPixelSize' = rgbPixelSize /\ rgbRowBytes' = rgbRowBytes
         /\ Supported' <=> Supported
         /\ \A x, y : Address(x, y)' = Address(x, y)
         /\ \A f, x, y : Pixel(f, x, y)' = Pixel(f, x, y)
         /\ Columns' = Columns /\ AllRows' = AllRows
         /\ CommonColumns' = CommonColumns /\ CommonRows' = CommonRows
         /\ ArraySize' = ArraySize /\ BitmapSize' = BitmapSize
         /\ (ShapeInv' <=> ShapeInv) /\ (Covers' <=> Covers) /\ (RowsMatch' <=> RowsMatch)
<1>1. platform' = platform /\ image' = image /\ bitmap' = bitmap
  BY DEF shapes
<1>2. rgbPixelSize' = rgbPixelSize /\ (Supported' <=> Supported)
  BY <1>1 DEF rgbPixelSize, Supported
<1>3. rgbRowBytes' = rgbRowBytes
  BY <1>1, <1>2 DEF rgbRowBytes
<1>4. \A x, y : Address(x, y)' = Address(x, y)
  BY <1>2, <1>3 DEF Address
<1>5. \A f, x, y : Pixel(f, x, y)' = Pixel(f, x, y)
  BY <1>1 DEF Pixel, alphaPremultiplied
<1>6. /\ Columns' = Columns /\ AllRows' = AllRows
      /\ CommonColumns' = CommonColumns /\ CommonRows' = CommonRows
  BY <1>1 DEF Columns, AllRows, CommonColumns, CommonRows
<1>7. ArraySize' = ArraySize /\ BitmapSize' = BitmapSize
  BY <1>1, <1>3 DEF ArraySize, BitmapSize, ToInt
<1>8. (ShapeInv' <=> ShapeInv) /\ (Covers' <=> Covers)
  BY <1>1 DEF ShapeInv, Images, Bitmaps, Covers
<1>9. RowsMatch' <=> RowsMatch
  BY <1>1, <1>6 DEF RowsMatch
<1> QED
  BY <1>2, <1>3, <1>4, <1>5, <1>6, <1>7, <1>8, <1>9

(* The memory after a step, in the geometry before it.                     *)
LEMMA NextMemory ==
  ASSUME UNCHANGED shapes
  PROVE  /\ Placed(pixels)' <=> Placed(pixels')
         /\ \A f, x, y : WrittenIn(pixels, f, x, y)' <=> WrittenIn(pixels', f, x, y)
         /\ \A f : Shows(f)' <=> ShownIn(pixels', f)
         /\ PixelsInside' <=> \A a \in DOMAIN pixels' : a + rgbPixelSize <= length'
<1>1. bitmap' = bitmap
  BY DEF shapes
<1>2. Placed(pixels)' <=> Placed(pixels')
  BY SameShape DEF Placed
<1>3. \A f, x, y : WrittenIn(pixels, f, x, y)' <=> WrittenIn(pixels', f, x, y)
  BY SameShape DEF WrittenIn
<1>4. \A f : Shows(f)' <=> ShownIn(pixels', f)
  BY <1>1, SameShape DEF Shows, ShowsAt, ShownIn
<1>5. PixelsInside' <=> \A a \in DOMAIN pixels' : a + rgbPixelSize <= length'
  BY SameShape DEF PixelsInside
<1> QED
  BY <1>2, <1>3, <1>4, <1>5

(* Shows is about the memory as it is.                                     *)
LEMMA ShowsNow == \A f : Shows(f) <=> ShownIn(pixels, f)
  BY DEF Shows, ShowsAt, ShownIn

PixelRecords == [frame : Frames, x : Nat, y : Nat, premul : BOOLEAN]

(* A pixel that is written is one, at a place of its own.                  *)
LEMMA PixelType ==
  ASSUME ShapeInv, Supported, NEW f \in Frames, NEW x \in Columns, NEW y \in AllRows
  PROVE  /\ Pixel(f, x, y) \in PixelRecords /\ Pixel(f, x, y).x = x /\ Pixel(f, x, y).y = y
         /\ x \in Nat /\ y \in Nat /\ Address(x, y) \in Nat
<1>1. x \in Nat /\ y \in Nat
  BY Shapes DEF Columns, AllRows
<1>2. Address(x, y) \in Nat
  BY <1>1, AddressType
<1> QED
  BY <1>1, <1>2 DEF Pixel, PixelRecords, alphaPremultiplied

(* What a step leaves in the memory is placed and fits.                    *)
LEMMA MemoryStep ==
  ASSUME FrameInv, NEW t \in Threads, Does(t)
  PROVE  /\ ShapeInv' /\ SizeInv' /\ Placed(pixels)' /\ PixelsInside' /\ length' \in Nat
         /\ DOMAIN pixels' \subseteq Nat
         /\ \A a \in DOMAIN pixels' : pixels'[a] \in PixelRecords
<1> USE DEF FrameInv
<1>1. UNCHANGED shapes
  BY StepCalls
<1>2. platform' = platform /\ image' = image
  BY <1>1 DEF shapes
<1>3. ShapeInv'
  BY <1>1, SameShape
<1>4. length \in Nat /\ \A a \in DOMAIN pixels : a \in Nat /\ pixels[a] \in PixelRecords
  BY DEF TypeOK, PixelRecords
<1>5. CASE UNCHANGED memory
  <2>1. pixels' = pixels /\ length' = length
    BY <1>5 DEF memory
  <2>2. SizeInv'
    BY <1>1, <1>2, <2>1, SameShape DEF SizeInv
  <2>3. PixelsInside' /\ Placed(pixels)'
    BY <1>1, <2>1, NextMemory DEF PixelsInside
  <2> QED
    BY <1>3, <1>4, <2>1, <2>2, <2>3
<1>6. CASE convertRow(t)
  <2> DEFINE f == call[t].frame
             n == call[t].row
             w == Converted(f, {n})
  <2>1. /\ f \in Frames /\ n \in Nat /\ n < image.height
        /\ Supported /\ platform # "native"
        /\ pixels' = Over(pixels, w) /\ length' = length
        /\ ~(Address(image.width - 1, n) + rgbPixelSize > length)
    BY <1>6 DEF convertRow, At, TypeOK, CallsInside, Inside, Overruns
  <2>2. {n} \in SUBSET AllRows /\ n \in AllRows
    BY <2>1, Shapes DEF AllRows
  <2>3. \A a \in DOMAIN w :
          \E x \in Columns, y \in {n} : a = Address(x, y) /\ w[a] = Pixel(f, x, y)
    BY <2>1, <2>2, ConvertedPixels
  <2> HIDE DEF w, f, n
  <2>4. ASSUME NEW a \in DOMAIN w
        PROVE  /\ a \in Nat /\ a + rgbPixelSize <= length /\ w[a] \in PixelRecords
               /\ w[a].x \in Columns /\ w[a].y \in AllRows /\ a = Address(w[a].x, w[a].y)
    <3>1. PICK x \in Columns : a = Address(x, n) /\ w[a] = Pixel(f, x, n)
      BY <2>3
    <3>2. w[a] \in PixelRecords /\ w[a].x = x /\ w[a].y = n /\ a \in Nat /\ x \in Nat
      BY <2>1, <2>2, <3>1, PixelType
    <3>3. Address(x, n) <= Address(image.width - 1, n)
      BY <2>1, RowInside
    <3>4. image.width - 1 \in Nat
      BY Shapes
    <3>5. Address(image.width - 1, n) \in Nat /\ rgbPixelSize \in Nat
      <4>1. Address(image.width - 1, n) \in Nat
        BY <2>1, <3>4, AddressType
      <4>2. rgbPixelSize \in {2, 4, 8}
        BY <2>1, Rows
      <4> QED
        BY <4>1, <4>2
    <3>6. a + rgbPixelSize <= length
      BY <1>4, <2>1, <3>1, <3>2, <3>3, <3>5
    <3> QED
      BY <2>2, <3>1, <3>2, <3>6
  <2>5. \A a \in DOMAIN pixels' :
          \/ a \in DOMAIN w /\ pixels'[a] = w[a]
          \/ a \in DOMAIN pixels /\ pixels'[a] = pixels[a]
    BY <2>1 DEF Over
  <2>6. \A a \in DOMAIN pixels' :
          a \in Nat /\ a + rgbPixelSize <= length' /\ pixels'[a] \in PixelRecords
    BY <1>4, <2>1, <2>4, <2>5 DEF PixelsInside
  <2>7. Placed(pixels')
    BY <2>4, <2>5 DEF Placed
  <2>8. SizeInv'
    BY <1>1, <1>2, <2>1, SameShape DEF SizeInv
  <2> QED
    BY <1>1, <1>3, <1>4, <2>1, <2>6, <2>7, <2>8, NextMemory
<1>7. CASE installPixels(t)
  <2> DEFINE f == call[t].frame
             w == Converted(f, AllRows)
  <2>1. /\ f \in Frames /\ Supported /\ platform = "native" /\ ArraySize >= 0
        /\ pixels' = w /\ length' = ArraySize
    BY <1>7 DEF installPixels, At, TypeOK, CallsInside, Inside
  <2>2. length' = image.width * rgbPixelSize * image.height /\ length' \in Nat
    BY <2>1, ArraySizeExact
  <2>3. AllRows \in SUBSET AllRows /\ platform # "android"
    BY <2>1
  <2>4. \A a \in DOMAIN w :
          \E x \in Columns, y \in AllRows : a = Address(x, y) /\ w[a] = Pixel(f, x, y)
    BY <2>1, <2>3, ConvertedPixels
  <2> HIDE DEF w, f
  <2>5. ASSUME NEW a \in DOMAIN w
        PROVE  /\ a \in Nat /\ a + rgbPixelSize <= length' /\ w[a] \in PixelRecords
               /\ w[a].x \in Columns /\ w[a].y \in AllRows /\ a = Address(w[a].x, w[a].y)
    <3>1. PICK x \in Columns, y \in AllRows : a = Address(x, y) /\ w[a] = Pixel(f, x, y)
      BY <2>4
    <3>2. w[a] \in PixelRecords /\ w[a].x = x /\ w[a].y = y /\ a \in Nat
      BY <2>1, <3>1, PixelType
    <3>3. a + rgbPixelSize <= length'
      BY <2>1, <2>2, <3>1, ArrayInside
    <3> QED
      BY <3>1, <3>2, <3>3
  <2>6. Placed(pixels')
    BY <2>1, <2>5 DEF Placed
  <2>7. SizeInv'
    BY <1>1, <1>2, <2>1, <2>2, SameShape DEF SizeInv
  <2> QED
    BY <1>1, <1>3, <2>1, <2>2, <2>5, <2>6, <2>7, NextMemory
<1> QED
  BY <1>5, <1>6, <1>7 DEF Does, decodeFrame, Enters, makeArray, Fails, Succeeds
-------------------------------------------------------------------------------
(* The steps.                                                              *)

(* A call converts supported formats only and has no more rows behind it   *)
(* than the frame has.                                                     *)
LEMMA CallStep ==
  ASSUME FrameInv, NEW t \in Threads, Does(t)
  PROVE  call' \in [Threads -> Calls] /\ CallsInside' /\ outcome' \in Outcomes
<1> USE DEF FrameInv
<1>1. call \in [Threads -> Calls] /\ outcome \in Outcomes
  BY DEF TypeOK, Calls, Outcomes
<1>2. /\ UNCHANGED shapes /\ \A u \in Threads \ {t} : call'[u] = call[u]
      /\ \E c : call' = [call EXCEPT ![t] = c] /\ call'[t] = c
  BY StepCalls
<1>3. /\ image' = image /\ platform' = platform /\ (Supported' <=> Supported)
      /\ ArraySize' = ArraySize /\ image.height \in Nat /\ image.height <= MaxSide
  BY <1>2, SameShape, Shapes DEF shapes
<1> DEFINE Good(c) ==
      /\ c \in Calls
      /\ Inside(c) => Supported
      /\ c.pc = "install" => platform = "native" /\ ArraySize >= 0
      /\ c.pc # "convert" \/ platform = "native" => c.row = 0
      /\ c.row <= image.height
<1>4. \A u \in Threads : Good(call[u])
  BY <1>1 DEF CallsInside
<1>5. Good(call'[t]) /\ outcome' \in Outcomes
  <2>1. CASE \E f \in Frames : decodeFrame(t, f)
    <3>1. PICK f \in Frames : decodeFrame(t, f)
      BY <2>1
    <3>2. call'[t] = [pc |-> "start", frame |-> f, row |-> 0]
      BY <1>1, <3>1 DEF decodeFrame
    <3>3. 0 \in 0 .. MaxSide
      BY FrameDecodeAssumption
    <3>4. Good(call'[t])
      BY <1>3, <3>2, <3>3 DEF Calls, Inside
    <3>5. NoOthers(t) \in BOOLEAN
      BY DEF NoOthers
    <3> QED
      BY <3>1, <3>4, <3>5 DEF decodeFrame, Outcomes
  <2>2. CASE Enters(t)
    <3>1. call'[t] = [call[t] EXCEPT !.pc = "convert"] /\ call[t].pc = "start" /\ Supported
      BY <1>1, <2>2 DEF Enters, Goto, At
    <3>2. call'[t] \in Calls /\ call'[t].row = call[t].row /\ call'[t].pc = "convert"
      BY <1>4, <3>1 DEF Calls
    <3>3. Good(call'[t])
      BY <1>4, <3>1, <3>2
    <3> QED
      BY <1>1, <2>2, <3>3 DEF Enters, Goto
  <2>3. CASE makeArray(t)
    <3>1. /\ call'[t] = [call[t] EXCEPT !.pc = "install"] /\ call[t].pc = "convert"
          /\ platform = "native" /\ ArraySize >= 0
      BY <1>1, <2>3 DEF makeArray, Goto, At
    <3>2. call'[t] \in Calls /\ call'[t].row = call[t].row /\ call'[t].pc = "install"
      BY <1>4, <3>1 DEF Calls
    <3>3. Good(call'[t])
      BY <1>4, <3>1, <3>2 DEF Inside
    <3> QED
      BY <1>1, <2>3, <3>3 DEF makeArray, Goto
  <2>4. ASSUME NEW status \in {"ok", "failed"}, Return(t, status)
        PROVE  Good(call'[t]) /\ outcome' \in Outcomes
    <3>1. call'[t] = Idle
      BY <1>1, <2>4 DEF Return
    <3>2. Good(call'[t])
      BY <1>3, <3>1, IdleType DEF Inside
    <3>3. call[t].frame \in Frames
      BY <1>1 DEF Calls
    <3> QED
      BY <1>1, <2>4, <3>2, <3>3 DEF Return, Outcomes
  <2>5. CASE convertRow(t)
    <3>1. /\ call'[t] = [call[t] EXCEPT !.row = call[t].row + 1]
          /\ call[t].pc = "convert" /\ call[t].row < image.height /\ platform # "native"
      BY <1>1, <2>5 DEF convertRow, At
    <3>2. call[t].row \in Nat /\ call[t].row + 1 <= image.height /\ call[t].row + 1 \in 0 .. MaxSide
      BY <1>3, <1>4, <3>1, FrameDecodeAssumption DEF Calls
    <3>3. /\ call'[t] \in Calls /\ call'[t].pc = "convert" /\ call'[t].row = call[t].row + 1
      BY <1>4, <3>1, <3>2 DEF Calls
    <3>4. Good(call'[t])
      BY <1>4, <3>1, <3>2, <3>3 DEF Inside
    <3> QED
      BY <1>1, <2>5, <3>4 DEF convertRow
  <2> QED
    BY <2>1, <2>2, <2>3, <2>4, <2>5 DEF Does, Fails, Succeeds, installPixels
<1>6. \A u \in Threads : Good(call'[u])
  BY <1>2, <1>4, <1>5
<1>7. call' \in [Threads -> Calls]
  BY <1>1, <1>2, <1>6
<1>8. CallsInside'
  BY <1>3, <1>6 DEF CallsInside, Inside
<1> QED
  BY <1>5, <1>7, <1>8

(* A call that was alone when it started stays alone until another starts, *)
(* and two that overlap are noted.                                         *)
LEMMA AloneStep ==
  ASSUME FrameInv, NEW t \in Threads, Does(t)
  PROVE  StillAlone' /\ SharedInv' /\ shared' \in BOOLEAN
<1> USE DEF FrameInv
<1>1. /\ \A u \in Threads \ {t} : call'[u] = call[u]
      /\ \E c : call' = [call EXCEPT ![t] = c] /\ call'[t] = c
  BY StepCalls
<1>2. call \in [Threads -> Calls] /\ call' \in [Threads -> Calls]
  BY CallStep DEF TypeOK, Calls
<1>3. outcome \in Outcomes /\ shared \in BOOLEAN
  BY DEF TypeOK, Outcomes
<1>4. CASE \E f \in Frames : decodeFrame(t, f)
  <2>1. PICK f \in Frames : decodeFrame(t, f)
    BY <1>4
  <2>2. /\ outcome' = [status |-> "none", frame |-> f, alone |-> NoOthers(t)]
        /\ shared' = (shared \/ ~NoOthers(t)) /\ call[t].pc = "idle"
    BY <2>1 DEF decodeFrame
  <2>3. NoOthers(t) => \A u \in Threads : call'[u].pc # "idle" => u = t
    BY <1>1 DEF NoOthers
  <2>4. StillAlone'
    BY <2>2, <2>3 DEF StillAlone
  <2>5. shared' => SharedInv'
    BY DEF SharedInv
  <2>6. ~shared' => SharedInv'
    BY <2>2, <2>3 DEF SharedInv
  <2>7. shared' \in BOOLEAN
    BY <1>3, <2>2
  <2> QED
    BY <2>4, <2>5, <2>6, <2>7
<1>5. CASE Enters(t) \/ makeArray(t) \/ convertRow(t)
  <2>1. /\ call[t].pc # "idle" /\ outcome' = outcome /\ shared' = shared
    BY <1>5 DEF Enters, makeArray, convertRow, Goto, At
  <2>2. \A u \in Threads : call'[u].pc # "idle" => call[u].pc # "idle"
    BY <1>1, <2>1
  <2>3. \A u \in Threads : call[u].pc = "idle" => call'[u].pc = "idle"
    BY <1>1, <2>1
  <2>4. StillAlone'
    BY <2>1, <2>2, <2>3 DEF StillAlone
  <2>5. SharedInv'
    BY <2>1, <2>2 DEF SharedInv
  <2> QED
    BY <1>3, <2>1, <2>4, <2>5
<1>6. ASSUME NEW status, Return(t, status), call[t].pc # "idle"
      PROVE  StillAlone' /\ SharedInv' /\ shared' \in BOOLEAN
  <2>1. call'[t].pc = "idle"
    BY <1>2, <1>6, IdleType DEF Return
  <2>2. outcome'.alone = outcome.alone /\ shared' = shared
    BY <1>3, <1>6 DEF Return, Outcomes
  <2>3. \A u \in Threads : call'[u].pc # "idle" => u # t /\ call[u].pc # "idle"
    BY <1>1, <2>1
  <2>4. StillAlone'
    BY <1>6, <2>2, <2>3 DEF StillAlone
  <2>5. SharedInv'
    BY <2>2, <2>3 DEF SharedInv
  <2> QED
    BY <1>3, <2>2, <2>4, <2>5
<1> QED
  BY <1>4, <1>5, <1>6 DEF Does, Fails, Succeeds, installPixels, At

(* The rows behind a call in place stay written, as far as the bitmap is   *)
(* wide: a row that follows goes to higher addresses.                      *)
LEMMA RowsStep ==
  ASSUME FrameInv, NEW t \in Threads, Does(t)
  PROVE  RowsWritten'
<1> USE DEF FrameInv
<1>1. /\ UNCHANGED shapes /\ \A u \in Threads \ {t} : call'[u] = call[u]
      /\ \E c : call' = [call EXCEPT ![t] = c] /\ call'[t] = c
  BY StepCalls
<1>2. call \in [Threads -> Calls] /\ call' \in [Threads -> Calls]
  BY CallStep DEF TypeOK, Calls
<1>3. platform' = platform /\ CommonColumns' = CommonColumns
  BY <1>1, SameShape DEF shapes
<1>4. outcome \in Outcomes
  BY DEF TypeOK, Outcomes
<1>5. SUFFICES ASSUME platform # "native", outcome'.alone,
                      NEW u \in Threads, call'[u].pc = "convert",
                      NEW f, f = call'[u].frame,
                      NEW x \in CommonColumns, NEW y \in 0 .. call'[u].row - 1
               PROVE  WrittenIn(pixels', f, x, y)
  BY <1>1, <1>3, NextMemory DEF RowsWritten
<1>6. CASE \E g \in Frames : decodeFrame(t, g)
  <2>1. PICK g \in Frames : decodeFrame(t, g)
    BY <1>6
  <2>2. outcome'.alone = NoOthers(t) /\ call'[t].pc = "start"
    BY <1>2, <2>1 DEF decodeFrame
  <2> QED
    BY <1>1, <1>5, <2>2 DEF NoOthers
<1>7. CASE Enters(t)
  <2>1. /\ outcome' = outcome /\ call'[t].row = call[t].row /\ call[t].row = 0
        /\ pixels' = pixels
    BY <1>2, <1>7 DEF Enters, Goto, At, Calls, CallsInside, memory
  <2>2. u # t
    BY <1>5, <2>1
  <2>3. WrittenIn(pixels, f, x, y)
    BY <1>1, <1>5, <2>1, <2>2 DEF RowsWritten
  <2> QED
    BY <2>1, <2>3
<1>8. CASE Fails(t) \/ Succeeds(t)
  <2>1. /\ call'[t].pc = "idle" /\ outcome'.alone = outcome.alone
        /\ pixels' = pixels
    BY <1>2, <1>4, <1>8, IdleType DEF Fails, Succeeds, Return, memory, Outcomes
  <2>2. u # t
    BY <1>5, <2>1
  <2>3. WrittenIn(pixels, f, x, y)
    BY <1>1, <1>5, <2>1, <2>2 DEF RowsWritten
  <2> QED
    BY <2>1, <2>3
<1>9. CASE convertRow(t)
  <2> DEFINE n == call[t].row
             w == Converted(call[t].frame, {n})
  <2>1. /\ outcome' = outcome /\ call[t].pc = "convert" /\ n < image.height
        /\ call'[t] = [call[t] EXCEPT !.row = n + 1]
        /\ pixels' = Over(pixels, w)
    BY <1>2, <1>9 DEF convertRow, At
  <2>2. /\ Supported /\ n \in Nat /\ call[t].frame \in Frames
        /\ call'[t].frame = call[t].frame /\ call'[t].row = n + 1
    BY <1>2, <2>1 DEF CallsInside, Calls, Inside
  <2>3. u = t /\ f = call[t].frame
    BY <1>1, <1>5, <2>1, <2>2 DEF StillAlone
  <2>4. y \in Nat /\ y <= n
    BY <1>5, <2>2, <2>3
  <2>5. {n} \in SUBSET AllRows
    BY <2>1, <2>2, Shapes DEF AllRows
  <2>6. x \in Columns
    BY DEF CommonColumns, Columns
  <2>7. /\ \A a \in DOMAIN w : \E x2 \in Columns : a = Address(x2, n)
        /\ \A x2 \in Columns : WrittenIn(w, f, x2, n)
    <3>1. \A y2, z2 \in {n} : y2 = z2
      OBVIOUS
    <3> HIDE DEF n
    <3> QED
      BY <2>2, <2>3, <2>5, <3>1, ConvertedPixels
  <2> HIDE DEF w, n
  <2>8. CASE y = n
    <3>1. Address(x, y) \in DOMAIN w /\ w[Address(x, y)] = Pixel(f, x, y)
      BY <2>6, <2>7, <2>8 DEF WrittenIn
    <3> QED
      BY <2>1, <3>1 DEF Over, WrittenIn
  <2>9. CASE y # n
    <3>1. y \in 0 .. call[t].row - 1
      BY <2>2, <2>4, <2>9 DEF n
    <3>2. WrittenIn(pixels, f, x, y)
      BY <1>5, <2>1, <2>3, <3>1 DEF RowsWritten
    <3>3. ASSUME NEW x2 \in Columns PROVE Address(x, y) # Address(x2, n)
      <4>1. x2 \in Nat /\ y < n /\ x \in Nat
        BY <2>2, <2>4, <2>6, <2>9, Shapes DEF Columns
      <4>2. Address(x, y) < Address(x2, n)
        BY <2>2, <2>4, <4>1, AddressBelow
      <4>3. Address(x, y) \in Nat /\ Address(x2, n) \in Nat
        BY <2>2, <2>4, <4>1, AddressType
      <4> QED
        BY <4>2, <4>3
    <3>4. Address(x, y) \notin DOMAIN w
      BY <2>7, <3>3
    <3> QED
      BY <2>1, <3>2, <3>4 DEF Over, WrittenIn
  <2> QED
    BY <2>8, <2>9
<1>10. CASE makeArray(t) \/ installPixels(t)
  BY <1>5, <1>10 DEF makeArray, installPixels
<1> QED
  BY <1>5, <1>6, <1>7, <1>8, <1>9, <1>10 DEF Does

(* A call that succeeds leaves its frame where the bitmap has it, if the   *)
(* rows match, and only then.                                              *)
LEMMA DecodedStep ==
  ASSUME FrameInv, NEW t \in Threads, Does(t)
  PROVE  DecodedExact' /\ OkSupported'
<1> USE DEF FrameInv
<1>1. UNCHANGED shapes
  BY StepCalls
<1>2. /\ platform' = platform /\ image' = image /\ bitmap' = bitmap
      /\ (RowsMatch' <=> RowsMatch) /\ (Supported' <=> Supported)
  BY <1>1, SameShape DEF shapes
<1>3. outcome \in Outcomes
  BY DEF TypeOK, Outcomes
<1>4. SUFFICES ASSUME outcome'.status = "ok", NEW f, f = outcome'.frame
               PROVE  /\ outcome'.alone => (ShownIn(pixels', f) <=> RowsMatch)
                      /\ Supported
  BY <1>1, <1>2, NextMemory DEF DecodedExact, OkSupported
<1>5. CASE (\E g \in Frames : decodeFrame(t, g)) \/ Fails(t)
  <2>1. (\E g \in Frames : decodeFrame(t, g)) => outcome'.status = "none"
    BY DEF decodeFrame
  <2>2. Fails(t) => outcome'.status = "failed"
    BY <1>3 DEF Fails, Return, Outcomes
  <2> QED
    BY <1>4, <1>5, <2>1, <2>2
<1>6. CASE Enters(t) \/ makeArray(t)
  <2>1. outcome' = outcome /\ pixels' = pixels
    BY <1>6 DEF Enters, makeArray, Goto, memory
  <2> QED
    BY <1>4, <2>1, ShowsNow DEF DecodedExact, OkSupported
<1>7. CASE Succeeds(t)
  <2>1. /\ call[t].pc = "convert" /\ call[t].row = image.height /\ platform # "native"
        /\ outcome'.frame = call[t].frame /\ outcome'.alone = outcome.alone
        /\ pixels' = pixels
    BY <1>3, <1>7 DEF Succeeds, At, Return, memory, Outcomes
  <2>2. Supported
    BY <2>1 DEF CallsInside, Inside
  <2>3. ASSUME outcome.alone, NEW x \in CommonColumns, NEW y \in CommonRows
        PROVE  WrittenIn(pixels, f, x, y)
    <3>1. y \in 0 .. call[t].row - 1
      BY <2>1 DEF CommonRows, AllRows
    <3> QED
      BY <1>4, <2>1, <2>3, <3>1 DEF RowsWritten
  <2> QED
    BY <2>1, <2>2, <2>3, WrittenShown
<1>8. CASE convertRow(t)
  <2>1. /\ outcome' = outcome /\ call[t].pc = "convert"
    BY <1>8 DEF convertRow, At
  <2>2. ~outcome'.alone
    BY <1>4, <2>1 DEF StillAlone
  <2> QED
    BY <1>4, <2>1, <2>2 DEF OkSupported
<1>9. CASE installPixels(t)
  <2>1. /\ outcome'.frame = call[t].frame
        /\ Supported /\ platform = "native"
        /\ pixels' = Converted(call[t].frame, AllRows)
    BY <1>3, <1>9 DEF installPixels, At, Return, Outcomes, CallsInside, Inside
  <2>2. Placed(pixels')
    BY <1>1, MemoryStep, NextMemory
  <2>3. AllRows \in SUBSET AllRows /\ platform # "android"
    BY <2>1
  <2>4. \A x \in Columns, y \in AllRows : WrittenIn(pixels', f, x, y)
    BY <1>4, <2>1, <2>3, ConvertedPixels
  <2>5. \A x \in CommonColumns, y \in CommonRows : WrittenIn(pixels', f, x, y)
    BY <2>4 DEF Columns, CommonColumns, CommonRows
  <2> QED
    BY <2>1, <2>2, <2>5, WrittenShown
<1> QED
  BY <1>5, <1>6, <1>7, <1>8, <1>9 DEF Does

(* Overruns have a cause, and so have races.                               *)
LEMMA FaultStep ==
  ASSUME FrameInv, NEW t \in Threads, undefined(t)
  PROVE  FaultsExplained' /\ faults' \subseteq {"overrun", "race"}
<1> USE DEF FrameInv
<1>1. /\ faults' = CallFaults(t) /\ UNCHANGED shapes /\ shared' = shared
  BY DEF undefined
<1>2. platform' = platform /\ (Covers' <=> Covers)
  BY <1>1, SameShape DEF shapes
<1>3. /\ faults' \subseteq {"overrun", "race"}
      /\ "overrun" \in faults' <=> Overruns(t)
      /\ "race" \in faults' <=> Races(t)
  BY <1>1 DEF CallFaults
<1>4. ASSUME Overruns(t) PROVE platform # "native" /\ ~Covers
  <2>1. /\ platform # "native" /\ call[t].pc = "convert" /\ call[t].row < image.height
        /\ Address(image.width - 1, call[t].row) + rgbPixelSize > length
    BY <1>4 DEF Overruns, At
  <2>2. Supported /\ call[t].row \in Nat
    BY <2>1 DEF CallsInside, Inside, TypeOK
  <2>3. call[t].row \in AllRows
    BY <2>1, <2>2, Shapes DEF AllRows
  <2>4. length = BitmapSize /\ length \in Nat
    BY <2>1 DEF SizeInv, TypeOK
  <2>5. image.width - 1 \in Nat
    BY Shapes
  <2>6. Address(image.width - 1, call[t].row) \in Nat
    BY <2>2, <2>5, AddressType
  <2>7. rgbPixelSize \in {2, 4, 8}
    BY <2>2, Rows
  <2>8. Covers => Address(image.width - 1, call[t].row) + rgbPixelSize <= length
    BY <2>2, <2>3, <2>4, AddressInside
  <2> QED
    BY <2>1, <2>4, <2>6, <2>7, <2>8
<1>5. ASSUME Races(t) PROVE platform = "native" /\ shared
  <2>1. PICK u \in Threads \ {t} : call[u].pc \in {"start", "install"}
    BY <1>5 DEF Races
  <2>2. call[t].pc = "install" /\ platform = "native"
    BY <1>5 DEF Races, At
  <2> QED
    BY <2>1, <2>2 DEF SharedInv
<1> QED
  BY <1>1, <1>2, <1>3, <1>4, <1>5 DEF FaultsExplained
-------------------------------------------------------------------------------
(* At the start no call runs and the bitmap is blank.                      *)
LEMMA FrameInit ==
  ASSUME Init
  PROVE  FrameInv
<1>1. /\ platform \in Platforms /\ image \in Images /\ bitmap \in Bitmaps
      /\ DOMAIN pixels = {} /\ length = BitmapSize
      /\ locks = 0 /\ buffers = 0 /\ lost = 0
      /\ call = [t \in Threads |-> Idle]
      /\ outcome = [status |-> "none", frame |-> Idle.frame, alone |-> TRUE]
      /\ shared = FALSE /\ faults = {}
  BY DEF Init
<1>2. ShapeInv /\ SizeInv
  BY <1>1 DEF ShapeInv, SizeInv
<1>3. length \in Nat
  <2>1. /\ bitmap.height - 1 \in Nat /\ bitmap.rowBytes \in Nat
        /\ bitmap.width * PixelSize[bitmap.format] \in Nat
    BY <1>2, Shapes
  <2>2. (bitmap.height - 1) * bitmap.rowBytes \in Nat
    BY <2>1, Product
  <2> QED
    BY <1>1, <2>1, <2>2 DEF BitmapSize
<1>4. TypeOK
  <2>1. /\ image \in [width : Sides, height : Sides]
        /\ bitmap \in [width : Nat, height : Nat, format : Formats, rowBytes : Nat]
    BY <1>2, Shapes
  <2>2. call \in [Threads -> Calls]
    BY <1>1, IdleType
  <2>3. outcome \in Outcomes
    BY <1>1, IdleType DEF Outcomes, Calls
  <2>4. {length, locks, buffers, lost} \subseteq Nat
    BY <1>1, <1>3
  <2>5. /\ DOMAIN pixels \subseteq Nat
        /\ \A a \in DOMAIN pixels : pixels[a] \in PixelRecords
    BY <1>1
  <2>6. platform \in Platforms /\ shared \in BOOLEAN /\ faults \subseteq {"overrun", "race"}
    BY <1>1
  <2> QED
    BY <2>1, <2>2, <2>3, <2>4, <2>5, <2>6 DEF TypeOK, Calls, Outcomes, PixelRecords
<1>5. \A t \in Threads : call[t] = Idle
  BY <1>1
<1>6. CallsInside /\ StillAlone /\ SharedInv /\ RowsWritten
  <2>1. image.height \in Nat
    BY <1>2, Shapes
  <2>2. CallsInside
    BY <1>5, <2>1, IdleType DEF CallsInside, Inside
  <2>3. StillAlone /\ SharedInv /\ RowsWritten
    BY <1>5, IdleType DEF StillAlone, SharedInv, RowsWritten
  <2> QED
    BY <2>2, <2>3
<1>7. Placed(pixels) /\ PixelsInside
  BY <1>1 DEF Placed, PixelsInside
<1>8. Converting = {} /\ OnlyNativeInstalls
  BY <1>5, IdleType DEF Converting, Inside, OnlyNativeInstalls
<1>9. LocksBalanced /\ BuffersAccounted
  BY <1>1, <1>8, FS_EmptySet, LocksCount, BuffersCount
<1>10. DecodedExact /\ OkSupported /\ FaultsExplained
  BY <1>1 DEF DecodedExact, OkSupported, FaultsExplained
<1> QED
  BY <1>2, <1>4, <1>6, <1>7, <1>9, <1>10 DEF FrameInv

(* Nothing but faults changes: the rest of the invariant stays.            *)
LEMMA FrameSame ==
  ASSUME FrameInv,
         UNCHANGED <<shapes, memory, locks, buffers, lost, call, outcome, shared>>,
         FaultsExplained', faults' \subseteq {"overrun", "race"}
  PROVE  FrameInv'
<1> USE DEF FrameInv
<1>1. /\ platform' = platform /\ image' = image /\ bitmap' = bitmap
      /\ pixels' = pixels /\ length' = length /\ UNCHANGED shapes
      /\ locks' = locks /\ buffers' = buffers /\ lost' = lost
      /\ call' = call /\ outcome' = outcome /\ shared' = shared
  BY DEF shapes, memory
<1>2. TypeOK'
  BY <1>1 DEF TypeOK
<1>3. ShapeInv' /\ SizeInv'
  BY <1>1, SameShape DEF SizeInv
<1>4. Placed(pixels)' /\ PixelsInside'
  BY <1>1, NextMemory DEF PixelsInside
<1>5. CallsInside'
  BY <1>1, SameShape DEF CallsInside, Inside
<1>6. StillAlone' /\ SharedInv'
  BY <1>1 DEF StillAlone, SharedInv
<1>7. RowsWritten'
  BY <1>1, SameShape, NextMemory DEF RowsWritten
<1>8. DecodedExact' /\ OkSupported'
  BY <1>1, SameShape, NextMemory, ShowsNow DEF DecodedExact, OkSupported
<1>9. LocksBalanced' /\ BuffersAccounted'
  BY <1>1 DEF LocksBalanced, BuffersAccounted
<1> QED
  BY <1>2, <1>3, <1>4, <1>5, <1>6, <1>7, <1>8, <1>9

(* Every step of every thread keeps the invariant.                         *)
LEMMA FrameNext ==
  ASSUME FrameInv, [Next]_vars
  PROVE  FrameInv'
<1>1. faults \subseteq {"overrun", "race"}
  BY DEF FrameInv, TypeOK
<1>2. CASE UNCHANGED vars
  <2>1. /\ UNCHANGED <<shapes, memory, locks, buffers, lost, call, outcome, shared>>
        /\ faults' = faults /\ platform' = platform /\ shared' = shared
    BY <1>2 DEF vars, shapes, memory
  <2>2. FaultsExplained'
    BY <2>1, SameShape DEF FrameInv, FaultsExplained
  <2> QED
    BY <1>1, <2>1, <2>2, FrameSame
<1>3. ASSUME NEW t \in Threads, undefined(t)
      PROVE  FrameInv'
  <2>1. UNCHANGED <<shapes, memory, locks, buffers, lost, call, outcome, shared>>
    BY <1>3 DEF undefined
  <2> QED
    BY <1>3, <2>1, FaultStep, FrameSame
<1>4. ASSUME NEW t \in Threads, Step(t), faults = {}, UNCHANGED faults
      PROVE  FrameInv'
  <2>1. Does(t) /\ Counted(t)
    BY <1>4, StepDoes, StepCounted DEF FrameInv
  <2>2. UNCHANGED shapes
    BY <2>1, StepCalls DEF FrameInv
  <2>3. /\ call' \in [Threads -> Calls] /\ CallsInside' /\ outcome' \in Outcomes
    BY <2>1, CallStep
  <2>4. OnlyNativeInstalls /\ OnlyNativeInstalls'
    BY <2>3 DEF FrameInv, CallsInside, OnlyNativeInstalls
  <2>5. /\ LocksBalanced' /\ BuffersAccounted'
        /\ locks' \in Nat /\ buffers' \in Nat /\ lost' \in Nat
    BY <2>1, <2>4, CountedKeeps DEF FrameInv
  <2>6. /\ ShapeInv' /\ SizeInv' /\ Placed(pixels)' /\ PixelsInside' /\ length' \in Nat
        /\ DOMAIN pixels' \subseteq Nat
        /\ \A a \in DOMAIN pixels' : pixels'[a] \in PixelRecords
    BY <2>1, MemoryStep
  <2>7. StillAlone' /\ SharedInv' /\ shared' \in BOOLEAN
    BY <2>1, AloneStep
  <2>8. RowsWritten' /\ DecodedExact' /\ OkSupported'
    BY <2>1, RowsStep, DecodedStep
  <2>9. FaultsExplained'
    BY <1>4 DEF FaultsExplained
  <2>10. TypeOK'
    <3>1. platform' = platform /\ image' = image /\ bitmap' = bitmap
      BY <2>2 DEF shapes
    <3> QED
      BY <1>4, <2>3, <2>5, <2>6, <2>7, <3>1 DEF FrameInv, TypeOK, Calls, Outcomes, PixelRecords
  <2> QED
    BY <2>3, <2>5, <2>6, <2>7, <2>8, <2>9, <2>10 DEF FrameInv
<1> QED
  BY <1>2, <1>3, <1>4 DEF Next

(* FrameInv is an invariant.                                               *)
LEMMA FrameAlways == Spec => []FrameInv
  BY FrameInit, FrameNext, PTL DEF Spec

(* Every variable keeps its type, whatever the shapes and however many     *)
(* threads decode.                                                         *)
THEOREM FrameTypes == Spec => []TypeOK
  BY FrameAlways, PTL DEF FrameInv

(* A decodeFrame that ran alone and returned leaves every pixel of its     *)
(* frame that the bitmap has room for where the bitmap has it, for any two *)
(* sizes, if the bytes per row are those the code assumed, and only then.  *)
THEOREM FramesDecodedExactly == Spec => []DecodedExact
  BY FrameAlways, PTL DEF FrameInv

(* decodeFrame writes beyond the end of a bitmap only if it is smaller     *)
(* than the image, and races for it only if calls of Kotlin/Native overlap *)
(* on it.                                                                  *)
THEOREM FrameFaultsHaveCauses == Spec => []FaultsExplained
  BY FrameAlways, PTL DEF FrameInv

(* The memory that Kotlin/Native makes for the bitmap has all its pixels,  *)
(* if the bitmap has no more and no longer rows than the image.            *)
THEOREM MemoryHoldsBitmap == Spec => []MemoryHolds
<1>1. FrameInv => MemoryHolds
  BY SizeHolds DEF FrameInv
<1> QED
  BY <1>1, FrameAlways, PTL

(* Each AndroidBitmap_lockPixels is undone on every way out.               *)
THEOREM EveryLockUndone == Spec => []LocksBalanced
  BY FrameAlways, PTL DEF FrameInv

(* Each avifRGBImageAllocatePixels is undone on every way out but one.     *)
THEOREM EveryBufferAccounted == Spec => []BuffersAccounted
  BY FrameAlways, PTL DEF FrameInv
===============================================================================
