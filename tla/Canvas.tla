------------------------------- MODULE Canvas -------------------------------
(***************************************************************************)
(* From a surface to the window: libSDL paints into an array of pixels,    *)
(* NDL_DrawRect seeks and writes the frame buffer file once for every row, *)
(* fb_write turns the offset back into a place, the driver hands the row   *)
(* to the device, and the simulator copies the frame buffer to the window  *)
(* from time to time.  The device copies what physical memory holds of the *)
(* row, and nobody fences: pixels whose lines are still dirty in the data  *)
(* cache are drawn as they were before.                                    *)
(***************************************************************************)
EXTENDS Integers

CONSTANTS
  Color,
  Screens,     \* the sizes of screen
  CanvasSizes, \* what applications ask for on each of them; 0 by 0 is all of it
  Images       \* surfaces that come from files

Size == [w : Nat, h : Nat]
Array(size) == 0..size.w * size.h - 1
Whole == [w |-> 0, h |-> 0]

\* The pixels as the application reads them, and as physical memory holds them.
Surface(size, pixels, memory) ==
  [w |-> size.w, h |-> size.h, pixels |-> pixels, memory |-> memory]
Nothing == Surface(Whole, <<>>, <<>>)

CanvasAssumption ==
  /\ Color # {}
  /\ Screens \subseteq [w : Nat \ {0}, h : Nat \ {0}]
  /\ CanvasSizes \in [Screens -> SUBSET Size]
  /\ \A z \in Screens : \A s \in CanvasSizes[z] : s = Whole \/ (s.w \in 1..z.w /\ s.h \in 1..z.h)
  /\ \A s \in Images : /\ s.w \in Nat \ {0} /\ s.h \in Nat \ {0} /\ s.pixels \in [Array(s) -> Color]
                        /\ s = [w |-> s.w, h |-> s.h, pixels |-> s.pixels]

VARIABLES
  screen,   \* what /proc/dispinfo says
  pc,       \* "none", "app", "row", "sync"
  surface,  \* the surface of the application, as large as its canvas
  drawn,    \* the image NDL_DrawRect draws, Nothing if it draws the surface
  row,      \* its row
  offset,   \* open_offset of /dev/fb
  vmem,     \* the frame buffer
  sync,     \* vgactl_port_base[1]
  unseen    \* the pixels of vmem that the window does not show yet

app == <<surface, drawn>>
vars == <<screen, pc, surface, drawn, row, offset, vmem, sync, unseen>>

FbSize == screen.w * screen.h * 4

Init ==
  /\ screen \in Screens
  /\ pc = "none" /\ surface = Nothing /\ drawn = Nothing
  /\ row = 0 /\ offset = 0 /\ sync = 0
  /\ vmem = [p \in Array(screen) |-> CHOOSE c \in Color : TRUE] /\ unseen = {}

-----------------------------------------------------------------------------
(* libSDL *)

Opened(size, on) == IF size = Whole THEN on ELSE size

\* NDL_OpenCanvas, then a surface from malloc whose pixels nobody has written.
SetVideoMode(size) ==
  LET canvas == Opened(size, screen)
  IN  /\ pc = "none" /\ pc' = "app"
      /\ \E pixels, memory \in [Array(canvas) -> Color] :
           surface' = Surface(canvas, pixels, memory)
      /\ UNCHANGED <<screen, drawn, row, offset, vmem, sync, unseen>>

\* Another application takes the place of this one.
execve ==
  /\ pc = "app" /\ pc' = "none" /\ surface' = Nothing
  /\ UNCHANGED <<screen, drawn, row, offset, vmem, sync, unseen>>

\* Stores of the application go to the cache.
Painted(pixels) ==
  /\ pc = "app" /\ surface' = [surface EXCEPT !.pixels = pixels]
  /\ UNCHANGED <<screen, pc, drawn, row, offset, vmem, sync, unseen>>

\* SDL_FillRect without a rectangle, as every application calls it.
FillRect(c) == Painted([p \in Array(surface) |-> c])

\* Fault: rows of the target are as long as those of the source.
BlitSurface_Stride(src, x, y) ==
  LET from == (0..src.h - 1) \X (0..src.w - 1)
      to(ij) == (y + ij[1]) * src.w + x + ij[2]
  IN  Painted([p \in Array(surface) |->
        IF \E ij \in from : to(ij) = p
        THEN LET ij == CHOOSE k \in from : to(k) = p IN src.pixels[ij[1] * src.w + ij[2]]
        ELSE surface.pixels[p]])

\* SDL_BlitSurface of a whole surface to a place where it fits, row i and column j.
BlitSurface(src, x, y) ==
  LET from == (0..src.h - 1) \X (0..src.w - 1)
      to(ij) == (y + ij[1]) * surface.w + x + ij[2]
  IN  Painted([p \in Array(surface) |->
        IF \E ij \in from : to(ij) = p
        THEN LET ij == CHOOSE k \in from : to(k) = p IN src.pixels[ij[1] * src.w + ij[2]]
        ELSE surface.pixels[p]])

-----------------------------------------------------------------------------
(* NDL_DrawRect and what is below it *)

\* The cache gives up the line of pixel p, whatever the program is doing.  A line
\* holds several pixels; here each goes on its own.
WriteBack(p) ==
  /\ \/ /\ p \in Array(surface) /\ surface.memory[p] # surface.pixels[p] /\ UNCHANGED drawn
        /\ surface' = [surface EXCEPT !.memory = [@ EXCEPT ![p] = surface.pixels[p]]]
     \/ /\ p \in Array(drawn) /\ drawn.memory[p] # drawn.pixels[p] /\ UNCHANGED surface
        /\ drawn' = [drawn EXCEPT !.memory = [@ EXCEPT ![p] = drawn.pixels[p]]]
  /\ UNCHANGED <<screen, pc, row, offset, vmem, sync, unseen>>

\* Fault: canvas_w is not set for the whole screen.
CanvasX_Unset == IF surface.w = screen.w THEN screen.w \div 2 ELSE (screen.w - surface.w) \div 2

CanvasX == (screen.w - surface.w) \div 2
CanvasY == (screen.h - surface.h) \div 2

\* SDL_UpdateRect of everything, of the surface or of an image; opening /dev/fb
\* rewinds it.
UpdateRect(image) ==
  /\ pc = "app"
  /\ pc' = "row" /\ drawn' = image /\ row' = 0 /\ offset' = 0
  /\ UNCHANGED <<screen, surface, vmem, sync, unseen>>

source == IF drawn = Nothing THEN surface ELSE drawn

\* lseek fails behind the end and leaves the offset where it is.
Sought(new) == IF new > FbSize THEN offset ELSE new

\* fast_fb_draw of one row of n pixels: what lies right of the screen or below it is left out.
Drawn(x, y, n, pixel) ==
  LET real == IF x + n > screen.w THEN screen.w - x ELSE n
      first == y * screen.w + x
      area == IF y < screen.h THEN first..first + real - 1 ELSE {}
  IN  /\ vmem' = [p \in Array(screen) |-> IF p \in area THEN pixel[p - first] ELSE vmem[p]]
      /\ unseen' = unseen \cup (area \cap Array(screen))

\* One turn of the loop up to the store that makes the device draw: lseek,
\* fs_write, fb_write, __gpu_fbdraw.  guest_to_host is physical memory.
DrawRow ==
  LET at == Sought(((CanvasY + row) * screen.w + CanvasX) * 4)
      len == IF at + source.w * 4 > FbSize THEN FbSize - at ELSE source.w * 4
  IN  /\ pc = "row" /\ pc' = "sync"
      /\ Drawn((at \div 4) % screen.w, (at \div 4) \div screen.w, len \div 4,
               [i \in 0..source.w - 1 |-> source.memory[row * source.w + i]])
      /\ offset' = at + len \div 4
      /\ UNCHANGED <<screen, app, row, sync>>

\* Fault: only the last row asks for an update.
Sync_Last ==
  /\ pc = "sync"
  /\ sync' = IF row + 1 = source.h THEN 1 ELSE sync
  /\ \/ row + 1 < source.h /\ pc' = "row" /\ row' = row + 1 /\ UNCHANGED drawn
     \/ row + 1 = source.h /\ pc' = "app" /\ row' = 0 /\ drawn' = Nothing
  /\ UNCHANGED <<screen, surface, offset, vmem, unseen>>

\* The store behind it, and the end of the turn.
Sync ==
  /\ pc = "sync"
  /\ sync' = 1
  /\ \/ row + 1 < source.h /\ pc' = "row" /\ row' = row + 1 /\ UNCHANGED drawn
     \/ row + 1 = source.h /\ pc' = "app" /\ row' = 0 /\ drawn' = Nothing
  /\ UNCHANGED <<screen, surface, offset, vmem, unseen>>

\* device_update of the simulator, between any two instructions.
vga_update_screen ==
  /\ sync # 0
  /\ unseen' = {} /\ sync' = 0
  /\ UNCHANGED <<screen, pc, app, row, offset, vmem>>

Next ==
  \/ \E size \in CanvasSizes[screen] : SetVideoMode(size)
  \/ \E c \in Color : FillRect(c)
  \/ \E src \in Images, x \in 0..screen.w - 1, y \in 0..screen.h - 1 :
       x + src.w <= surface.w /\ y + src.h <= surface.h /\ BlitSurface(src, x, y)
  \/ UpdateRect(Nothing)
  \/ \E s \in Images : \E memory \in [Array(s) -> Color] :
       s.w <= surface.w /\ s.h <= surface.h /\ UpdateRect(Surface(s, s.pixels, memory))
  \/ \E p \in Array(screen) : WriteBack(p)
  \/ execve \/ DrawRow \/ Sync \/ vga_update_screen

Spec == Init /\ [][Next]_vars

-----------------------------------------------------------------------------
(* Properties *)

\* An array of pixels addressed by column and row.
Gridded(size, array) ==
  [p \in (0..size.w - 1) \X (0..size.h - 1) |-> array[p[2] * size.w + p[1]]]

Painting(s) == [at |-> [w |-> s.w, h |-> s.h], color |-> Gridded(s, s.pixels)]

Pictured(s) ==
  IF s.w = 0 THEN <<>>
  ELSE [at |-> [w |-> s.w, h |-> s.h], color |-> Gridded(s, s.pixels),
        stored |-> Gridded(s, s.memory)]

RowsLeft == CASE pc = "row" -> source.h - row [] pc = "sync" -> source.h - row - 1 [] OTHER -> 0

\* Painting, seeking and writing rows, and turning an offset back into a place
\* together do what an application may expect of a picture: SDL_BlitSurface,
\* SDL_UpdateRect, NDL_DrawRect and fb_write agree about rows and strides, and
\* what appears at a place is what memory holds of the pixel painted for it,
\* whatever lines are written back before and between the rows (Desktop,
\* IsPicture).
P == INSTANCE Picture WITH
  Sizes <- Screens \cup ((UNION {CanvasSizes[z] : z \in Screens}) \ {Whole}),
  Images <- {Painting(s) : s \in Images},
  picture <- Pictured(surface),
  showing <- IF RowsLeft = 0 THEN <<>> ELSE Pictured(drawn), rows <- RowsLeft,
  display <- [at |-> screen, color |-> Gridded(screen, vmem)]

\* Between two rows the window shows the frame buffer unless the simulator
\* has been told to copy it.
WindowCurrent == pc # "sync" /\ sync = 0 => unseen = {}
=============================================================================
