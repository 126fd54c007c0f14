\* Whatever may meet on the totals, two or three jobs at a time.
SPECIFICATION Spec
CONSTANTS
    Ada = Ada  Ben = Ben
    move = move  back = back  add = add  out = out  join = join  look = look
    Users = {Ada, Ben}
    Jobs = {move, back, add, out, join, look}
    Work <- WorkOf
    Day <- DayOfEvents
    Mixes = {{move, back}, {move, add, out}, {move, add, join}, {add, join, look}, {out}}
    Breakable = {move, add, join}
INVARIANTS TypeOK TotalsAreHistory ReportsAgree NeverOvercounted NoCircle
CHECK_DEADLOCK FALSE
