----------------------------- MODULE BlobPaths -----------------------------
(***************************************************************************)
(* Where FileSystemRepository (src/internal/repo/blob/                     *)
(* filesystem_blob_repository.go) keeps a blob: getBasename, GetFilename,  *)
(* flock's lock file, and the pattern and directory walk of getFilenames.  *)
(* A string is a sequence of one-character strings.                        *)
(***************************************************************************)
EXTENDS Naturals, SequencesExt

CONSTANT Basedir   \* cfg.Basedir, a string

dirPrefixLength == 2
dirPrefixDepth  == 3
idMinLength     == dirPrefixDepth * dirPrefixLength

Sep == "/"

\* filepath.Join of non-empty elements: the elements separated by "/".
RECURSIVE Join(_)
Join(elems) ==
    IF Len(elems) = 1 THEN Head(elems) ELSE Head(elems) \o <<Sep>> \o Join(Tail(elems))

\* fmt.Sprintf("%*s", idMinLength, s): s right-aligned in idMinLength
\* columns, padded on the left with spaces.
RECURSIVE PadLeft(_)
PadLeft(s) == IF Len(s) >= idMinLength THEN s ELSE PadLeft(<<" ">> \o s)

\* getBasename: the id without "/" (ReplaceAll with "" is Remove), padded,
\* every space replaced by "0", under the directories named by its first
\* dirPrefixDepth pairs of characters; the loop stops early for an id no
\* longer than idMinLength.
getBasename(subdir, id) ==
    LET basename == ReplaceAll(PadLeft(Remove(id, Sep)), " ", "0")
        starts   == {i \in 0..(dirPrefixLength * dirPrefixDepth - 1) :
                        i % dirPrefixLength = 0 /\ i < Len(basename) - dirPrefixLength}
        prefixes == [k \in 1..Cardinality(starts) |->
                        SubSeq(basename, (k - 1) * dirPrefixLength + 1, k * dirPrefixLength)]
    IN Join(<<Basedir, subdir>> \o prefixes \o <<basename>>)

\* GetFilename: "<basename>.<ext>".
GetFilename(subdir, ext, id) == getBasename(subdir, id) \o <<".">> \o ext

\* flock's lockfile: the blob's filename with ".lock" appended.
LockFilename(subdir, ext, id) == GetFilename(subdir, ext, id) \o <<".", "l", "o", "c", "k">>

\* filepath.Dir: the path up to its last separator.
Dir(path) ==
    LET seps == {i \in 1..Len(path) : path[i] = Sep}
    IN SubSeq(path, 1, Max(seps) - 1)

\* filepath.Match: "*" matches any run of characters other than the
\* separator, every other pattern character matches itself.
RECURSIVE Match(_, _)
Match(pattern, name) ==
    IF pattern = <<>> THEN name = <<>>
    ELSE IF Head(pattern) = "*"
         THEN \E k \in 0..Len(name) :
                 /\ \A i \in 1..k : name[i] # Sep
                 /\ Match(Tail(pattern), SubSeq(name, k + 1, Len(name)))
    ELSE name # <<>> /\ Head(name) = Head(pattern) /\ Match(Tail(pattern), Tail(name))

\* Mutant of FilenamePattern: the extension is left out of the pattern.
FilenamePatternNoExt(subdir, ext, id, pattern) == getBasename(subdir, id) \o pattern

\* getFilenames' pattern: "<basename><pattern>.<ext>".
FilenamePattern(subdir, ext, id, pattern) ==
    getBasename(subdir, id) \o pattern \o <<".">> \o ext

\* getFilenames: filepath.Walk of the basename's directory, recursively,
\* keeping the regular files whose path matches the pattern.  files is the
\* set of paths of the regular files on disk.
getFilenames(subdir, ext, id, pattern, files) ==
    LET root == Dir(getBasename(subdir, id))
    IN {f \in files : IsPrefix(root \o <<Sep>>, f)
                        /\ Match(FilenamePattern(subdir, ext, id, pattern), f)}

\* fmt's %d of a natural: its decimal digits.
RECURSIVE Decimal(_)
Decimal(n) ==
    LET digit(d) == <<"0", "1", "2", "3", "4", "5", "6", "7", "8", "9">>[d + 1]
    IN IF n < 10 THEN <<digit(n)>> ELSE Decimal(n \div 10) \o <<digit(n % 10)>>
=============================================================================
