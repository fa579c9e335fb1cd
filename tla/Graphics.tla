------------------------------ MODULE Graphics ------------------------------
(***************************************************************************)
(* Drawing into a frame buffer (graphics.rs).  A drawing is whether it     *)
(* succeeded and the pixels it wrote, by their offset in the buffer: a     *)
(* column past the end of a line is a pixel of the next one.               *)
(***************************************************************************)
EXTENDS Integers, Sequences, FiniteSets, FiniteSetsExt

CONSTANTS
  Tile,             \* h of draw_test_pattern, 64; w is twice that
  GlyphW, GlyphH    \* a character's cell, 8 by 16

ASSUME GraphicsAssumption ==
  /\ Tile \in Nat \ {0} /\ GlyphW \in Nat \ {0} /\ GlyphH \in Nat \ {0}

Drawing(ok, pixels) == [ok |-> ok, pixels |-> pixels]

unchecked_pixel_at_mut(s, x, y) == y * s.pixels_per_line + x

\* Mutant: one column too many.
is_in_x_range_closed(s, x) == 0 <= x /\ x <= Min({s.width, s.pixels_per_line})

is_in_x_range(s, x) == 0 <= x /\ x < Min({s.width, s.pixels_per_line})
is_in_y_range(s, y) == 0 <= y /\ y < s.height

\* draw_point for each point, errors ignored.
draw_points(s, points) ==
  { unchecked_pixel_at_mut(s, p[1], p[2]) :
      p \in { q \in points : is_in_x_range(s, q[1]) /\ is_in_y_range(s, q[2]) } }

\* Only the corners are checked.
fill_rect(s, px, py, w, h) ==
  IF is_in_x_range(s, px) /\ is_in_y_range(s, py)
       /\ is_in_x_range(s, px + w - 1) /\ is_in_y_range(s, py + h - 1)
  THEN Drawing(TRUE, { unchecked_pixel_at_mut(s, x, y) : x \in px..(px + w - 1), y \in py..(py + h - 1) })
  ELSE Drawing(FALSE, {})

-----------------------------------------------------------------------------
(* draw_line, along the longer of its two extents.  calc_slope_point gives *)
(* {} for None.                                                            *)
Abs(n) == IF n < 0 THEN -n ELSE n
signum(n) == IF n < 0 THEN -1 ELSE IF n = 0 THEN 0 ELSE 1

calc_slope_point(da, db, ia) ==
  IF da < db THEN {}
  ELSE IF da = 0 THEN {0}
  ELSE IF ia \in 0..da THEN {(((2 * db * ia) + da) \div da) \div 2}
  ELSE {}

LinePoints(x0, y0, x1, y1) ==
  LET dx == Abs(x1 - x0)   sx == signum(x1 - x0)
      dy == Abs(y1 - y0)   sy == signum(y1 - y0)
      steps == IF dx >= dy
               THEN UNION { { <<rx, ry>> : ry \in calc_slope_point(dx, dy, rx) } : rx \in 0..(dx - 1) }
               ELSE UNION { { <<rx, ry>> : rx \in calc_slope_point(dy, dx, ry) } : ry \in 0..(dy - 1) }
  IN  { <<x0 + (p[1] * sx), y0 + (p[2] * sy)>> : p \in steps }

draw_line(s, x0, y0, x1, y1) ==
  IF \A p \in { <<x0, y0>>, <<x1, y1>> } : is_in_x_range(s, p[1]) /\ is_in_y_range(s, p[2])
  THEN draw_points(s, LinePoints(x0, y0, x1, y1))
  ELSE {}

-----------------------------------------------------------------------------
\* draw_font_fg, for a glyph that fills its cell; draw_str_fg for n of them.
draw_font_fg(s, x, y) == draw_points(s, { <<x + dx, y + dy>> : dx \in 0..(GlyphW - 1), dy \in 0..(GlyphH - 1) })
draw_str_fg(s, x, y, n) == UNION { draw_font_fg(s, x + (i * GlyphW), y) : i \in 0..(n - 1) }

\* The first tile that is not inside ends it; lines that are not are left out.
draw_test_pattern(s) ==
  LET w == 2 * Tile
      left == s.width - w - 1
      tile == [k \in 0..7 |-> fill_rect(s, left + ((k % 2) * Tile), (k \div 2) * Tile, Tile, Tile)]
      fine == { k \in 0..7 : \A j \in 0..k : tile[j].ok }
      tiles == UNION { tile[k].pixels : k \in fine }
      ends == {0, w} \X {0, w}
      lines == UNION { draw_line(s, left + a[1], a[2], left + b[1], b[2]) : a, b \in ends }
      text == draw_str_fg(s, left, Tile * 4, 10) \cup draw_str_fg(s, left, (Tile * 4) + GlyphH, 6)
  IN  IF fine = 0..7 THEN Drawing(TRUE, tiles \cup lines \cup text) ELSE Drawing(FALSE, tiles)
=============================================================================
