CONSTANTS Rows = {r1}
          Hashes = {h1, h2}
          NoHash = NoHash
          TextJobs = {j1, j2}
          Translators = {w1}
          Users = {u1}
          NoText = NoText
          MaxEdits = 0
          MaxSaves = 0
          MaxStops = 1
SPECIFICATION TextsSpec
SYMMETRY Symmetry
INVARIANT SettledIsFresh
CHECK_DEADLOCK FALSE
